---- MODULE Spec2Model ----
(***************************************************************************)
(* Verification model of the redd-archiver ingestion pipeline:             *)
(*   - BatchProcessor (processing/batch_processing_utils.py)               *)
(*   - VoatSQLParser  (core/importers/voat_sql_parser.py)                  *)
(* Text is modelled as a sequence of one-character strings; "LF", "CR"     *)
(* and "TAB" stand for the newline, carriage-return and tab characters.    *)
(***************************************************************************)
EXTENDS Integers, Sequences, FiniteSets, TLC

(***************************************************************************)
(* Bounds of the model                                                     *)
(***************************************************************************)
MaxRecords == 4
MaxBatchSize == 3
MaxInterrupts == 1
MaxFields == 3
MaxStrLen == 3
MaxTuples == 3
MaxStatements == 2
MaxTextLen == 4
MaxChunk == 3
MaxCount == 1
MaxIdLen == 2
MaxIdInt == 11
MaxTuneSize == 12
MaxSplitTuples == 2
MaxScanLen == 5
MaxLines == 4
MaxFlush == 2
MaxPairBatches == 2

(***************************************************************************)
(* Generic helpers                                                         *)
(***************************************************************************)
Min2(a, b) == IF a <= b THEN a ELSE b
Max2(a, b) == IF a >= b THEN a ELSE b
Abs(a) == IF a < 0 THEN -a ELSE a

\* Python slice s[lo:hi] with 0-based, half-open, already clamped indices
Slice(s, lo, hi) == IF hi <= lo THEN << >> ELSE SubSeq(s, lo + 1, hi)

\* fractions <<numerator, denominator>> with positive denominator stand
\* for the float factors of the auto-tuner
FracLeq(f, g) == f[1] * g[2] <= g[1] * f[2]
FracMin(f, g) == IF FracLeq(f, g) THEN f ELSE g
FracMax(f, g) == IF FracLeq(f, g) THEN g ELSE f

(***************************************************************************)
(* BatchConfig defaults that the model keeps at their source values        *)
(***************************************************************************)
memory_threshold_mb == 100
performance_threshold_records_per_sec == 1000

\* values the sampled throughput (records/s) and memory (MB) take
SpeedSamples == {0, 200, 800, 2000}
MemorySamples == {0, 150, 400}

operation_type == "posts"

VARIABLES
    config,              \* BatchConfig
    enable_monitoring,   \* BatchProcessor.enable_monitoring
    source,              \* all records of the community's import
    base,                \* tracker counters the current run started from
    data,                \* the list given to process_batches
    current_batch_size,  \* BatchProcessor.current_batch_size
    metrics,             \* BatchMetrics counters (meaningful when monitoring)
    pc,                  \* position inside process_batches
    range_step,          \* step the range() object was built with
    batch_start,         \* next value the range() iterator yields
    batch,               \* <<batch_start, batch_end>> of the current slice
    total_processed, total_errors, batches_processed,
    op_result,           \* dict returned by batch_operation for the batch
    sql_log,             \* statements executed on the connection, per batch
    handed,              \* slices handed to batch_operation, in order
    callbacks,           \* progress dicts passed to progress_callback, returning or raising
    inflight,            \* ids written in the open transaction
    committed,           \* ids durably committed, in commit order
    raised,              \* TRUE when an exception left process_batches
    exc_from,            \* statement whose exception the except clause handles
    attempted,           \* loop iterations started in this run
    handled,             \* exc_from of every batch the except clause handled
    persisted,           \* Progress Tracker row of the community
    interrupts,          \* interruptions of the import so far
    t_input,             \* _parse_values_tuple: the text and how it was built
    t_result,            \* _parse_values_tuple: (values, end position)
    t_pc,                \* "ready" before the call, "parsed" after it
    s_table,             \* stream_rows: table_name
    s_filter,            \* stream_rows: filter_subverses (<< >> for None)
    s_file,              \* physical lines of the dump, each ending in LF
    s_readable,          \* FALSE when gzip cannot read the file
    s_tuples,            \* the tuples the dump was written from, in order
    s_pc,                \* position inside stream_rows
    s_next,              \* number of lines the for loop has taken
    s_opened,            \* the file has been opened
    s_exc,               \* exception that left stream_rows
    buffer, in_split_format, accumulating_tuple,
    row_count, skipped_count, error_count,
    rows,                \* the rows yielded so far
    z_text,              \* characters the archive holds once decompressed
    z_bytes,             \* their UTF-8 bytes, as the stream reader returns them
    z_chunk_size,        \* chunk_size given to read_and_decode
    z_pos,               \* bytes the stream reader has returned
    z_buffer,            \* buffer of read_lines_zst
    z_lines,             \* lines yielded by read_lines_zst
    z_last,              \* how the latest read_and_decode call ended
    z_pc,                \* position inside read_lines_zst
    k_rows,              \* Progress Tracker: community -> stored row, or NoRow
    k_last,              \* arguments of the latest update_progress_status call
    k_repeat,            \* the latest call had the arguments of the one before
    k_stage,             \* steps of the failed -> importing -> imported recovery
                         \* the latest calls have completed
    k_answer,            \* the latest query and its result, until the next update
    i_a, i_b,            \* two source records: platform and raw id
    i_id_a, i_id_b,      \* what prefix_id returned for them
    i_pc,                \* "idle", "ready" or "prefixed"
    u_config,            \* BatchConfig of a loader whose tuner is called on its own
    u_current,           \* its current_batch_size before the call
    u_speed, u_memory,   \* the samples given to _calculate_optimal_batch_size
    u_new,               \* the size it returned
    u_pc,                \* "idle", "ready" or "tuned"
    d_exists,            \* stream_to_database: the source file exists
    d_record_type,       \* its record_type argument
    d_supplied,          \* a database handle was passed as db
    d_batch_size,        \* its batch_size argument
    d_lines,             \* what read_lines_zst yields: "good" or "bad" JSON
    d_corrupt_after,     \* lines yielded before the reader raises UnicodeError, -1: never
    d_next,              \* lines taken so far (file_lines)
    batch_records, records_processed, bad_lines, should_close_db,
    d_flushed,           \* the batches the database accepted, in order
    d_cleanups,          \* calls of db.cleanup() on the handle in use
    d_cause,             \* where the exception that ends the call came from
    d_pc,                \* position inside stream_to_database
    p_config,            \* BatchConfig shared by two loaders a and b
    p_size,              \* current_batch_size of each
    p_history,           \* performance_history of each: the batch_size entries
    p_counters,          \* adjustments_successful and adjustments_failed of each
    p_batches,           \* batches both loaders have processed
    p_pc                 \* "idle" or "run"

bvars == << config, enable_monitoring, source, base, data, current_batch_size, metrics, pc,
            range_step, batch_start, batch, total_processed, total_errors,
            batches_processed, op_result, sql_log, handed, callbacks,
            inflight, committed, raised, exc_from, attempted, handled,
            persisted, interrupts >>

cfgv == << config, enable_monitoring, source, base, data >>
loopv == << range_step, batch_start, batch >>
cntv == << total_processed, total_errors, batches_processed >>
dbv == << sql_log, inflight, committed >>
histv == << handed, callbacks, handled, attempted >>

tvars == << t_input, t_result, t_pc >>

svars == << s_table, s_filter, s_file, s_readable, s_tuples, s_pc, s_next,
            s_opened, s_exc, buffer, in_split_format, accumulating_tuple,
            row_count, skipped_count, error_count, rows >>

sinv == << s_table, s_filter, s_file, s_readable, s_tuples >>

zvars == << z_text, z_bytes, z_chunk_size, z_pos, z_buffer, z_lines, z_last,
           z_pc >>

\* the components added after the loader and the dump parser
kvars == << k_rows, k_last, k_repeat, k_stage, k_answer >>

ivars == << i_a, i_b, i_id_a, i_id_b, i_pc >>

uvars == << u_config, u_current, u_speed, u_memory, u_new, u_pc >>

dvars == << d_exists, d_record_type, d_supplied, d_batch_size, d_lines,
           d_corrupt_after, d_next, batch_records, records_processed, bad_lines,
           should_close_db, d_flushed, d_cleanups, d_cause, d_pc >>

pvars == << p_config, p_size, p_history, p_counters, p_batches, p_pc >>

xvars == << zvars, kvars, ivars, uvars, dvars, pvars >>

\* everything but the reader, and everything but the tracker
notz == << bvars, tvars, svars, kvars, ivars, uvars, dvars, pvars >>
notk == << bvars, tvars, svars, zvars, ivars, uvars, dvars, pvars >>
noti == << bvars, tvars, svars, zvars, kvars, uvars, dvars, pvars >>
notu == << bvars, tvars, svars, zvars, kvars, ivars, dvars, pvars >>
notd == << bvars, tvars, svars, zvars, kvars, ivars, uvars, pvars >>
notp == << bvars, tvars, svars, zvars, kvars, ivars, uvars, dvars >>

otherv == << tvars, svars, xvars >>

vars == << bvars, tvars, svars, xvars >>

(***************************************************************************)
(* BatchProcessor                                                          *)
(***************************************************************************)
SizeTriples ==
    { t \in (1..MaxBatchSize) \X (1..MaxBatchSize) \X (1..MaxBatchSize) :
        t[1] <= t[2] /\ t[2] <= t[3] }

\* BatchConfig instances: <<min, initial, max>> in t
Configs ==
    { [ min_batch_size |-> t[1], initial_batch_size |-> t[2],
        max_batch_size |-> t[3],
        auto_tune_enabled |-> a, transaction_scope |-> s,
        progress_callback_interval |-> k, validation_enabled |-> TRUE ] :
      t \in SizeTriples, a \in BOOLEAN, s \in {"batch", "operation"},
      k \in {1, 2} }

\* input lists: ids 1..n, at most one record lacking its subreddit
MkData(n, bad) ==
    [ i \in 1..n |-> [ id |-> i, subreddit |-> IF i = bad THEN "" ELSE "a" ] ]

Datasets == { MkData(n, bad) : n \in 0..MaxRecords, bad \in {0, 2} }

RequiredFieldsPresent(item, op) ==
    IF op \in {"posts", "comments"}
    THEN item.id # 0 /\ item.subreddit # ""
    ELSE item.id # 0

RECURSIVE FilterValid(_, _)
FilterValid(d, op) ==
    IF d = << >> THEN << >>
    ELSE IF RequiredFieldsPresent(Head(d), op)
         THEN << Head(d) >> \o FilterValid(Tail(d), op)
         ELSE FilterValid(Tail(d), op)

ValidateBatchData(d, op) ==
    IF ~config.validation_enabled THEN d ELSE FilterValid(d, op)

validated_data == ValidateBatchData(data, operation_type)

Ids(recs) == [ i \in 1..Len(recs) |-> recs[i].id ]

BatchRecords == Slice(validated_data, batch[1], batch[2])
BatchLen == batch[2] - batch[1]

\* mutant: the factor has no lower limit of one half
MemoryFactorUnlimited(memory_usage) ==
    IF memory_usage > memory_threshold_mb
    THEN <<memory_threshold_mb, memory_usage>>
    ELSE <<1, 1>>

MemoryFactor(memory_usage) ==
    IF memory_usage > memory_threshold_mb
    THEN FracMax(<<1, 2>>, <<memory_threshold_mb, memory_usage>>)
    ELSE <<1, 1>>

PerformanceFactor(processing_speed) ==
    IF processing_speed > 0
       /\ processing_speed < performance_threshold_records_per_sec
    THEN FracMin(<<3, 2>>, <<performance_threshold_records_per_sec, processing_speed>>)
    ELSE <<1, 1>>

\* mutant: the lower limit is not applied
ClampSizeUpperOnly(cfg, n) == Min2(cfg.max_batch_size, n)

ClampSize(cfg, n) == Max2(cfg.min_batch_size, Min2(cfg.max_batch_size, n))

\* the size _calculate_optimal_batch_size proposes before the 10% test
CandidateSize(cfg, cur, processing_speed, memory_usage) ==
    LET f == FracMin(MemoryFactor(memory_usage), PerformanceFactor(processing_speed))
    IN  ClampSize(cfg, (cur * f[1]) \div f[2])

Significant(cur, new) == 10 * Abs(new - cur) > cur

CalculateOptimalBatchSize(cfg, cur, processing_speed, memory_usage) ==
    IF ~cfg.auto_tune_enabled THEN cur
    ELSE LET new == CandidateSize(cfg, cur, processing_speed, memory_usage)
         IN  IF Significant(cur, new) THEN new ELSE cur

InitMetrics ==
    [ records_processed |-> 0, successful_batches |-> 0, failed_batches |-> 0,
      auto_adjustments |-> 0 ]

\* mutant: a failed batch is not counted
UpdatePerformanceMetricsSuccessOnly(m, records_count, success) ==
    IF ~enable_monitoring THEN m
    ELSE [ m EXCEPT !.records_processed = @ + records_count,
                    !.successful_batches = IF success THEN @ + 1 ELSE @ ]

UpdatePerformanceMetrics(m, records_count, success) ==
    IF ~enable_monitoring THEN m
    ELSE [ m EXCEPT !.records_processed = @ + records_count,
                    !.successful_batches = IF success THEN @ + 1 ELSE @,
                    !.failed_batches = IF success THEN @ ELSE @ + 1 ]

BInit ==
    /\ config \in Configs
    /\ enable_monitoring \in BOOLEAN
    /\ source \in Datasets
    /\ data = source
    /\ base = [ processed |-> 0, errors |-> 0 ]
    /\ current_batch_size = config.initial_batch_size
    /\ metrics = InitMetrics
    /\ pc = "idle"
    /\ range_step = 0
    /\ batch_start = 0
    /\ batch = <<0, 0>>
    /\ total_processed = 0
    /\ total_errors = 0
    /\ batches_processed = 0
    /\ op_result = [ inserted |-> 0, errors |-> 0 ]
    /\ sql_log = << >>
    /\ handed = << >>
    /\ callbacks = << >>
    /\ inflight = << >>
    /\ committed = << >>
    /\ raised = FALSE
    /\ exc_from = "none"
    /\ attempted = 0
    /\ handled = << >>
    /\ persisted = [ status |-> "pending", processed |-> 0, errors |-> 0 ]
    /\ interrupts = 0

\* the parser is not used by the loader
TIdle ==
    /\ t_input = [ kind |-> "none", text |-> << >>, fields |-> << >>,
                   orig |-> << >> ]
    /\ t_result = [ values |-> << >>, end |-> 0 ]
    /\ t_pc = "idle"

SIdle ==
    /\ s_table = "none"
    /\ s_filter = << >>
    /\ s_file = << >>
    /\ s_readable = TRUE
    /\ s_tuples = << >>
    /\ s_pc = "idle"
    /\ s_next = 0
    /\ s_opened = FALSE
    /\ s_exc = "none"
    /\ buffer = << >>
    /\ in_split_format = FALSE
    /\ accumulating_tuple = FALSE
    /\ row_count = 0
    /\ skipped_count = 0
    /\ error_count = 0
    /\ rows = << >>

\* read_lines_zst is not running
ZIdle ==
    /\ z_text = << >>
    /\ z_bytes = << >>
    /\ z_chunk_size = 1
    /\ z_pos = 0
    /\ z_buffer = << >>
    /\ z_lines = << >>
    /\ z_last = [ exc |-> "none", bytes_read |-> 0 ]
    /\ z_pc = "idle"

NoRow == [ status |-> "absent", posts_imported |-> 0, error_message |-> "None" ]

NoCall == [ community |-> "none", status |-> "none", posts_imported |-> -1,
            error_message |-> "absent" ]

Communities == {"c1", "c2"}

NoAnswer == [ query |-> "none", result |-> { } ]

\* the tracker holds no row and has not been called
KIdle ==
    /\ k_rows = [ c \in Communities |-> NoRow ]
    /\ k_last = NoCall
    /\ k_repeat = FALSE
    /\ k_stage = 0
    /\ k_answer = NoAnswer

NoRecord == [ platform |-> "none", raw_id |-> [ t |-> "null", s |-> << >>, n |-> 0 ] ]

\* no importer is in use
IIdle ==
    /\ i_a = NoRecord
    /\ i_b = NoRecord
    /\ i_id_a = << >>
    /\ i_id_b = << >>
    /\ i_pc = "idle"

\* the tuner is not called on its own
UIdle ==
    /\ u_config = [ min_batch_size |-> 1, max_batch_size |-> 1,
                    auto_tune_enabled |-> FALSE ]
    /\ u_current = 1
    /\ u_speed = 0
    /\ u_memory = 0
    /\ u_new = 1
    /\ u_pc = "idle"

DIdle ==
    /\ d_exists = TRUE
    /\ d_record_type = "posts"
    /\ d_supplied = TRUE
    /\ d_batch_size = 1
    /\ d_lines = << >>
    /\ d_corrupt_after = -1
    /\ d_next = 0
    /\ batch_records = << >>
    /\ records_processed = 0
    /\ bad_lines = 0
    /\ should_close_db = FALSE
    /\ d_flushed = << >>
    /\ d_cleanups = 0
    /\ d_cause = "none"
    /\ d_pc = "idle"

PIdle ==
    /\ p_config = [ min_batch_size |-> 1, max_batch_size |-> 1,
                    auto_tune_enabled |-> FALSE ]
    /\ p_size = [ l \in {"a", "b"} |-> 1 ]
    /\ p_history = [ l \in {"a", "b"} |-> << >> ]
    /\ p_counters = [ l \in {"a", "b"} |->
                        [ adjustments_successful |-> 0, adjustments_failed |-> 0 ] ]
    /\ p_batches = 0
    /\ p_pc = "idle"

XIdle == ZIdle /\ KIdle /\ IIdle /\ UIdle /\ DIdle /\ PIdle

\* the driver's progress callback stores the absolute counters it is given
\* in the community's Progress Tracker row (update_progress_status)
TrackerUpdate(status, progress) ==
    [ status |-> status, processed |-> base.processed + progress.processed,
      errors |-> base.errors + progress.errors ]

\* process_batches entry: empty input, validation, loop set-up
StartRun ==
    /\ pc = "idle"
    /\ IF data = << >> \/ validated_data = << >>
       THEN pc' = "done" /\ UNCHANGED range_step
       ELSE pc' = "loop" /\ range_step' = current_batch_size
    /\ batch_start' = 0
    /\ total_processed' = 0
    /\ total_errors' = 0
    /\ batches_processed' = 0
    /\ attempted' = 0
    /\ handed' = << >>
    /\ handled' = << >>
    /\ callbacks' = << >>
    /\ UNCHANGED << otherv, cfgv, current_batch_size, metrics, batch, op_result, dbv,
                    raised, exc_from, persisted, interrupts >>

\* head of the for loop: the range() iterator advances by the step it was
\* built with; the slice end uses the batch size of the moment
ForNext ==
    /\ pc = "loop"
    /\ IF batch_start < Len(validated_data)
       THEN /\ batch' = << batch_start,
                           Min2(batch_start + current_batch_size, Len(validated_data)) >>
            /\ batch_start' = batch_start + range_step
            /\ sql_log' = << >>
            /\ attempted' = attempted + 1
            /\ pc' = "begin"
       ELSE /\ pc' = "final"
            /\ UNCHANGED << batch, batch_start, sql_log, attempted >>
    /\ exc_from' = "none"
    /\ UNCHANGED << otherv, cfgv, current_batch_size, metrics, range_step, cntv,
                    op_result, inflight, committed, handed, callbacks, handled,
                    raised, persisted, interrupts >>

\* connection.execute("BEGIN TRANSACTION") when transaction_scope is batch
BeginTransaction ==
    /\ pc = "begin"
    /\ IF config.transaction_scope = "batch"
       THEN sql_log' = Append(sql_log, "BEGIN")
       ELSE UNCHANGED sql_log
    /\ inflight' = << >>
    /\ pc' = "op"
    /\ UNCHANGED << otherv, cfgv, current_batch_size, metrics, loopv, cntv, op_result,
                    committed, histv, raised, exc_from, persisted, interrupts >>

BeginRaises ==
    /\ pc = "begin"
    /\ config.transaction_scope = "batch"
    /\ sql_log' = Append(sql_log, "BEGIN")
    /\ exc_from' = "begin"
    /\ pc' = "except"
    /\ UNCHANGED << otherv, cfgv, current_batch_size, metrics, loopv, cntv, op_result,
                    inflight, committed, histv, raised, persisted, interrupts >>

\* batch_operation(batch, connection) returns: the last e records of the
\* batch are reported as errors, the others are written.  Under
\* transaction_scope "operation" the callee commits by itself.
BatchOperationReturns ==
    /\ pc = "op"
    /\ \E e \in {0, 1} :
         /\ e <= BatchLen
         /\ op_result' = [ inserted |-> BatchLen - e, errors |-> e ]
         /\ LET written == Ids(Slice(validated_data, batch[1], batch[2] - e))
            IN  IF config.transaction_scope = "batch"
                THEN inflight' = written /\ UNCHANGED committed
                ELSE committed' = committed \o written /\ UNCHANGED inflight
    /\ handed' = Append(handed, batch)
    /\ pc' = "commit"
    /\ UNCHANGED << otherv, cfgv, current_batch_size, metrics, loopv, cntv, sql_log,
                    callbacks, handled, attempted, raised, exc_from, persisted,
                    interrupts >>

BatchOperationRaises ==
    /\ pc = "op"
    /\ handed' = Append(handed, batch)
    /\ exc_from' = "op"
    /\ pc' = "except"
    /\ UNCHANGED << otherv, cfgv, current_batch_size, metrics, loopv, cntv, op_result,
                    dbv, callbacks, handled, attempted, raised, persisted,
                    interrupts >>

\* COMMIT (batch scope), then the counters and metrics of lines 393-401
CommitAndCount ==
    /\ pc = "commit"
    /\ IF config.transaction_scope = "batch"
       THEN /\ sql_log' = Append(sql_log, "COMMIT")
            /\ committed' = committed \o inflight
            /\ inflight' = << >>
       ELSE UNCHANGED dbv
    /\ total_processed' = total_processed + op_result.inserted
    /\ total_errors' = total_errors + op_result.errors
    /\ batches_processed' = batches_processed + 1
    /\ metrics' = UpdatePerformanceMetrics(metrics, op_result.inserted,
                                           op_result.errors = 0)
    /\ pc' = "callback"
    /\ UNCHANGED << otherv, cfgv, current_batch_size, loopv, op_result, histv, raised,
                    exc_from, persisted, interrupts >>

CommitRaises ==
    /\ pc = "commit"
    /\ config.transaction_scope = "batch"
    /\ sql_log' = Append(sql_log, "COMMIT")
    /\ exc_from' = "commit"
    /\ pc' = "except"
    /\ UNCHANGED << otherv, cfgv, current_batch_size, metrics, loopv, cntv, op_result,
                    inflight, committed, histv, raised, persisted, interrupts >>

ProgressDue ==
    batches_processed % config.progress_callback_interval = 0

IntervalProgress ==
    [ processed |-> total_processed, errors |-> total_errors,
      batches |-> batches_processed, completed |-> FALSE ]

FinalProgressDict ==
    [ processed |-> total_processed, errors |-> total_errors,
      batches |-> batches_processed, completed |-> TRUE ]

\* lines 403-413: the interval progress callback (the model always passes one)
ProgressCallback ==
    /\ pc = "callback"
    /\ IF ProgressDue
       THEN /\ callbacks' = Append(callbacks, IntervalProgress)
            /\ persisted' = TrackerUpdate("importing", IntervalProgress)
       ELSE UNCHANGED << callbacks, persisted >>
    /\ pc' = "tune"
    /\ UNCHANGED << otherv, cfgv, current_batch_size, metrics, loopv, cntv, op_result,
                    dbv, handed, handled, attempted, raised, exc_from,
                    interrupts >>

\* the callback is invoked and raises: the tracker is not updated
ProgressCallbackRaises ==
    /\ pc = "callback"
    /\ ProgressDue
    /\ callbacks' = Append(callbacks, IntervalProgress)
    /\ exc_from' = "callback"
    /\ pc' = "except"
    /\ UNCHANGED << otherv, cfgv, current_batch_size, metrics, loopv, cntv, op_result,
                    dbv, handed, handled, attempted, raised, persisted,
                    interrupts >>

\* lines 415-419: sample memory and throughput, adopt the proposed size
AutoTune ==
    /\ pc = "tune"
    /\ IF config.auto_tune_enabled /\ enable_monitoring
       THEN \E speed \in SpeedSamples, mem \in MemorySamples :
              LET new == CalculateOptimalBatchSize(config, current_batch_size, speed, mem)
              IN  /\ current_batch_size' = new
                  /\ metrics' = IF new # current_batch_size
                                THEN [ metrics EXCEPT !.auto_adjustments = @ + 1 ]
                                ELSE metrics
       ELSE UNCHANGED << current_batch_size, metrics >>
    /\ pc' = "loop"
    /\ UNCHANGED << otherv, cfgv, loopv, cntv, op_result, dbv, histv, raised, exc_from,
                    persisted, interrupts >>

\* mutant: the except clause rolls back and re-raises
ExceptHandlerReraises ==
    /\ pc = "except"
    /\ IF config.transaction_scope = "batch"
       THEN sql_log' = Append(sql_log, "ROLLBACK") /\ inflight' = << >>
       ELSE UNCHANGED << sql_log, inflight >>
    /\ raised' = TRUE
    /\ pc' = "done"
    /\ UNCHANGED << otherv, cfgv, current_batch_size, metrics, loopv, cntv, op_result,
                    committed, histv, exc_from, persisted, interrupts >>

\* lines 421-435: the except clause of the batch
ExceptHandler ==
    /\ pc = "except"
    /\ IF config.transaction_scope = "batch"
       THEN sql_log' = Append(sql_log, "ROLLBACK") /\ inflight' = << >>
       ELSE UNCHANGED << sql_log, inflight >>
    /\ metrics' = UpdatePerformanceMetrics(metrics, 0, FALSE)
    /\ total_errors' = total_errors + BatchLen
    /\ handled' = Append(handled, exc_from)
    /\ pc' = "loop"
    /\ UNCHANGED << otherv, cfgv, current_batch_size, loopv, total_processed,
                    batches_processed, op_result, committed, handed, callbacks,
                    attempted, raised, exc_from, persisted, interrupts >>

\* lines 437-464: final progress callback and the summary
FinalProgress ==
    /\ pc = "final"
    /\ callbacks' = Append(callbacks, FinalProgressDict)
    /\ persisted' = TrackerUpdate("imported", FinalProgressDict)
    /\ pc' = "done"
    /\ UNCHANGED << otherv, cfgv, current_batch_size, metrics, loopv, cntv, op_result,
                    dbv, handed, handled, attempted, raised, exc_from,
                    interrupts >>

\* the final callback is outside the try block: its exception reaches the caller
FinalProgressRaises ==
    /\ pc = "final"
    /\ callbacks' = Append(callbacks, FinalProgressDict)
    /\ raised' = TRUE
    /\ pc' = "done"
    /\ UNCHANGED << otherv, cfgv, current_batch_size, metrics, loopv, cntv, op_result,
                    dbv, handed, handled, attempted, exc_from, persisted,
                    interrupts >>

BNext ==
    \/ StartRun
    \/ ForNext
    \/ BeginTransaction
    \/ BeginRaises
    \/ BatchOperationReturns
    \/ BatchOperationRaises
    \/ CommitAndCount
    \/ CommitRaises
    \/ ProgressCallback
    \/ ProgressCallbackRaises
    \/ AutoTune
    \/ ExceptHandler
    \/ FinalProgress
    \/ FinalProgressRaises

Init == BInit /\ TIdle /\ SIdle /\ XIdle
Next == BNext
Spec == Init /\ [][Next]_vars

(***************************************************************************)
(* VoatSQLParser: text helpers                                             *)
(***************************************************************************)
Whitespace == {" ", "LF", "CR", "TAB"}
Digits == <<"0", "1", "2", "3", "4", "5", "6", "7", "8", "9">>
DigitSet == { Digits[i] : i \in 1..10 }
DigitValue(c) == (CHOOSE i \in 1..10 : Digits[i] = c) - 1

LowerOf == [ A |-> "a", B |-> "b", L |-> "l", N |-> "n", U |-> "u", X |-> "x" ]
UpperOf == [ a |-> "A", b |-> "B", l |-> "L", n |-> "N", u |-> "U", x |-> "X" ]
LowerChar(c) == IF c \in DOMAIN LowerOf THEN LowerOf[c] ELSE c
UpperChar(c) == IF c \in DOMAIN UpperOf THEN UpperOf[c] ELSE c
Lower(s) == [ i \in 1..Len(s) |-> LowerChar(s[i]) ]
Upper(s) == [ i \in 1..Len(s) |-> UpperChar(s[i]) ]

RECURSIVE LStrip(_)
LStrip(s) ==
    IF s # << >> /\ Head(s) \in Whitespace THEN LStrip(Tail(s)) ELSE s

RECURSIVE RStrip(_)
RStrip(s) ==
    IF s # << >> /\ s[Len(s)] \in Whitespace
    THEN RStrip(SubSeq(s, 1, Len(s) - 1)) ELSE s

\* str.strip()
Strip(s) == RStrip(LStrip(s))

\* s.startswith(p)
StartsWith(s, p) == Len(s) >= Len(p) /\ SubSeq(s, 1, Len(p)) = p

\* s.find(c, from) for a one-character c: 0-based index or -1
Find(s, c, from) ==
    IF \E i \in (from + 1)..Len(s) : s[i] = c
    THEN (CHOOSE i \in (from + 1)..Len(s) :
              s[i] = c /\ \A j \in (from + 1)..(i - 1) : s[j] # c) - 1
    ELSE -1

(***************************************************************************)
(* Parsed values: None, int, float, str as one record shape                *)
(***************************************************************************)
NullV == [ t |-> "null", s |-> << >>, n |-> 0 ]
IntV(k) == [ t |-> "int", s |-> << >>, n |-> k ]
FloatV(txt) == [ t |-> "float", s |-> txt, n |-> 0 ]
StrV(txt) == [ t |-> "str", s |-> txt, n |-> 0 ]

Unsigned(s) == IF s # << >> /\ Head(s) \in {"+", "-"} THEN Tail(s) ELSE s

\* int(value) succeeds: optional sign and decimal digits
IsInt(value) ==
    LET d == Unsigned(value)
    IN  d # << >> /\ \A i \in 1..Len(d) : d[i] \in DigitSet

RECURSIVE DigitsValue(_)
DigitsValue(d) ==
    IF d = << >> THEN 0
    ELSE 10 * DigitsValue(SubSeq(d, 1, Len(d) - 1)) + DigitValue(d[Len(d)])

ToInt(value) ==
    IF Head(value) = "-" THEN 0 - DigitsValue(Unsigned(value))
    ELSE DigitsValue(Unsigned(value))

\* float(value) succeeds where int(value) failed: digits around one decimal
\* point, or nan / inf / infinity in any letter case
IsFloat(value) ==
    LET d == Unsigned(value)
        dots == { i \in 1..Len(d) : d[i] = "." }
    IN  \/ /\ Cardinality(dots) = 1
           /\ Len(d) >= 2
           /\ \A i \in 1..Len(d) : d[i] \in DigitSet \cup {"."}
        \/ Lower(d) \in { <<"n", "a", "n">>, <<"i", "n", "f">>,
                          <<"i", "n", "f", "i", "n", "i", "t", "y">> }

\* mutant: the quoting of the field is not consulted
ParseValueIgnoresQuote(value, was_quoted) ==
    IF Upper(value) = <<"N", "U", "L", "L">> THEN NullV
    ELSE IF value = << >> THEN NullV
    ELSE IF IsInt(value) THEN IntV(ToInt(value))
    ELSE IF IsFloat(value) THEN FloatV(value)
    ELSE StrV(value)

\* _parse_value
ParseValue(value, was_quoted) ==
    IF Upper(value) = <<"N", "U", "L", "L">> THEN NullV
    ELSE IF value = << >> /\ ~was_quoted THEN NullV
    ELSE IF IsInt(value) THEN IntV(ToInt(value))
    ELSE IF IsFloat(value) THEN FloatV(value)
    ELSE StrV(value)

\* ESCAPE_MAP.get(char, char)
EscapeMap(c) ==
    CASE c = "'" -> "'"
      [] c = "\\" -> "\\"
      [] c = "r" -> "CR"
      [] c = "n" -> "LF"
      [] c = "t" -> "TAB"
      [] c = "0" -> "NUL"
      [] c = "b" -> "BS"
      [] c = "Z" -> "SUB"
      [] OTHER -> c

\* the while loop of _parse_values_tuple; i is the 0-based index
RECURSIVE ParseLoop(_, _, _, _, _, _)
ParseLoop(text, i, values, current, state, was_quoted) ==
    IF i >= Len(text) THEN [ values |-> values, end |-> Len(text) ]
    ELSE LET char == text[i + 1] IN
      IF state = "ESCAPE"
      THEN ParseLoop(text, i + 1, values, Append(current, EscapeMap(char)),
                     "IN_STRING", was_quoted)
      ELSE IF state = "IN_STRING"
      THEN IF char = "\\"
           THEN ParseLoop(text, i + 1, values, current, "ESCAPE", was_quoted)
           ELSE IF char = "'"
           THEN IF i + 1 < Len(text) /\ text[i + 2] = "'"
                THEN ParseLoop(text, i + 2, values, Append(current, "'"),
                               "IN_STRING", was_quoted)
                ELSE ParseLoop(text, i + 1, values, current, "OUTSIDE", was_quoted)
           ELSE ParseLoop(text, i + 1, values, Append(current, char),
                          "IN_STRING", was_quoted)
      ELSE IF char = "'"
      THEN ParseLoop(text, i + 1, values, current, "IN_STRING", TRUE)
      ELSE IF char = ","
      THEN ParseLoop(text, i + 1,
                     Append(values, ParseValue(Strip(current), was_quoted)),
                     << >>, "OUTSIDE", FALSE)
      ELSE IF char = ")"
      THEN [ values |-> Append(values, ParseValue(Strip(current), was_quoted)),
             end |-> i + 1 ]
      ELSE ParseLoop(text, i + 1, values, Append(current, char), "OUTSIDE",
                     was_quoted)

\* mutant: the tuple ends at the first closing parenthesis of the text,
\* whatever the state it is read in
ParseValuesTupleFirstParen(text, start) ==
    LET k == Find(text, ")", start)
    IN  IF k = -1 THEN ParseLoop(text, start + 1, << >>, << >>, "OUTSIDE", FALSE)
        ELSE [ ParseLoop(Slice(text, 0, k + 1), start + 1, << >>, << >>,
                         "OUTSIDE", FALSE) EXCEPT !.end = k + 1 ]

\* _parse_values_tuple(text, start): start is the 0-based index of "("
ParseValuesTuple(text, start) ==
    ParseLoop(text, start + 1, << >>, << >>, "OUTSIDE", FALSE)

(***************************************************************************)
(* _parse_values_tuple applied to generated tuples                         *)
(***************************************************************************)
\* field texts with the way each is written: "nullkw" the unquoted NULL
\* keyword, "empty" an unquoted empty field, "qempty" the quoted empty
\* string, "other" anything else
FieldSamples ==
    { [ txt |-> <<"1">>, kind |-> "other" ],
      [ txt |-> <<"N", "U", "L", "L">>, kind |-> "nullkw" ],
      [ txt |-> <<"n", "u", "l", "l">>, kind |-> "nullkw" ],
      [ txt |-> << >>, kind |-> "empty" ],
      [ txt |-> <<" ">>, kind |-> "empty" ],
      [ txt |-> <<"'", "'">>, kind |-> "qempty" ],
      [ txt |-> <<"'", "h", "e", "l", "l", "o", "'">>, kind |-> "other" ],
      [ txt |-> <<"'", "N", "U", "L", "L", "'">>, kind |-> "other" ],
      [ txt |-> <<"'", "a", ",", "b", "'">>, kind |-> "other" ] }

RECURSIVE JoinFields(_)
JoinFields(fs) ==
    IF fs = << >> THEN << >>
    ELSE IF Len(fs) = 1 THEN fs[1].txt
    ELSE fs[1].txt \o <<",">> \o JoinFields(Tail(fs))

TupleText(fs) == <<"(">> \o JoinFields(fs) \o <<")">>

TupleInputs ==
    { [ kind |-> "tuple", text |-> TupleText(fs),
        fields |-> [ i \in 1..Len(fs) |-> fs[i].kind ], orig |-> << >> ] :
      fs \in UNION { [ 1..n -> FieldSamples ] : n \in 1..MaxFields } }

\* characters of the strings that are written quoted and parsed back
RoundTripChars == {"x", "'", "\\", "LF", "CR"}

\* one character as mysqldump writes it inside quotes; a quote is written
\* backslash-quote or doubled, by style
EscapeChar(c, style) ==
    CASE c = "'" -> IF style = "doubled" THEN <<"'", "'">> ELSE <<"\\", "'">>
      [] c = "\\" -> <<"\\", "\\">>
      [] c = "LF" -> <<"\\", "n">>
      [] c = "CR" -> <<"\\", "r">>
      [] OTHER -> <<c>>

RECURSIVE EscapeString(_, _)
EscapeString(str, style) ==
    IF str = << >> THEN << >>
    ELSE EscapeChar(Head(str), style) \o EscapeString(Tail(str), style)

QuotedInputs ==
    { [ kind |-> "quoted",
        text |-> <<"(", "'">> \o EscapeString(str, style) \o <<"'", ")">>,
        fields |-> <<"other">>, orig |-> str ] :
      str \in UNION { [ 1..n -> RoundTripChars ] : n \in 0..MaxStrLen },
      style \in {"backslash", "doubled"} }

\* the characters the state machine tells apart, and one other
ScanChars == {"'", "\\", ",", ")", "x"}

\* an opening parenthesis followed by any short text
ScanInputs ==
    { [ kind |-> "scan", text |-> <<"(">> \o body, fields |-> << >>,
        orig |-> << >> ] :
      body \in UNION { [ 1..n -> ScanChars ] : n \in 0..MaxScanLen } }

TInit ==
    /\ t_input \in TupleInputs \cup QuotedInputs \cup ScanInputs
    /\ t_result = [ values |-> << >>, end |-> 0 ]
    /\ t_pc = "ready"

\* the loader variables while only the parser runs
BIdle ==
    /\ config = CHOOSE c \in Configs : TRUE
    /\ enable_monitoring = FALSE
    /\ source = << >>
    /\ data = << >>
    /\ base = [ processed |-> 0, errors |-> 0 ]
    /\ current_batch_size = config.initial_batch_size
    /\ metrics = InitMetrics
    /\ pc = "unused"
    /\ range_step = 0
    /\ batch_start = 0
    /\ batch = <<0, 0>>
    /\ total_processed = 0
    /\ total_errors = 0
    /\ batches_processed = 0
    /\ op_result = [ inserted |-> 0, errors |-> 0 ]
    /\ sql_log = << >>
    /\ handed = << >>
    /\ callbacks = << >>
    /\ inflight = << >>
    /\ committed = << >>
    /\ raised = FALSE
    /\ exc_from = "none"
    /\ attempted = 0
    /\ handled = << >>
    /\ persisted = [ status |-> "pending", processed |-> 0, errors |-> 0 ]
    /\ interrupts = 0

ParseTuple ==
    /\ t_pc = "ready"
    /\ t_result' = ParseValuesTuple(t_input.text, 0)
    /\ t_pc' = "parsed"
    /\ UNCHANGED << bvars, svars, xvars, t_input >>

TupleInit == BIdle /\ SIdle /\ XIdle /\ TInit

SpecTuple == TupleInit /\ [][ParseTuple]_vars

(***************************************************************************)
(* stream_rows                                                             *)
(***************************************************************************)
\* COLUMN_MAPS with each column list cut down to its key column, subverse
\* and (for submission) one further column
COLUMN_MAPS ==
    [ submission |-> <<"submissionid", "subverse", "title">>,
      comment |-> <<"commentid", "subverse">> ]

Columns == COLUMN_MAPS[s_table]

\* list.index(x), 0-based; -1 when x is absent
IndexOf(seq, x) ==
    IF \E i \in 1..Len(seq) : seq[i] = x
    THEN (CHOOSE i \in 1..Len(seq) : seq[i] = x) - 1
    ELSE -1

subverse_idx == IndexOf(Columns, "subverse")

filter_lower == { Lower(s_filter[i]) : i \in 1..Len(s_filter) }

FilterActive == s_filter # << >> /\ subverse_idx >= 0

\* the text INSERT INTO <table> VALUES (the table name in backquotes) is one
\* element of a line
InsertTokens == { "INSERT INTO submission VALUES", "INSERT INTO comment VALUES" }

InsertToken(table) ==
    CASE table = "submission" -> "INSERT INTO submission VALUES"
      [] table = "comment" -> "INSERT INTO comment VALUES"
      [] OTHER -> "INSERT INTO " \o table \o " VALUES"

\* the words line 155 looks for, each one element of a line
DDLWords == {"CREATE", "DROP", "ALTER", "SET", "USE"}

\* bool(value)
Truthy(v) ==
    \/ v.t = "str" /\ v.s # << >>
    \/ v.t = "int" /\ v.n # 0
    \/ v.t = "float" /\ \E i \in 1..Len(v.s) : v.s[i] \notin {"0", ".", "+", "-"}

RECURSIVE NatChars(_)
NatChars(n) ==
    IF n < 10 THEN << Digits[n + 1] >>
    ELSE NatChars(n \div 10) \o << Digits[(n % 10) + 1] >>

\* str(value).lower(); a float keeps the spelling it was read from
StrLower(v) ==
    CASE v.t = "null" -> <<"n", "o", "n", "e">>
      [] v.t = "int" -> IF v.n < 0 THEN <<"-">> \o NatChars(0 - v.n) ELSE NatChars(v.n)
      [] OTHER -> Lower(v.s)

\* _quick_extract_field: every path that reaches a return of a value calls
\* self._convert_value, which the class does not define, so the call ends
\* in AttributeError; the other paths return None.  The text collected in
\* `current` is never used and is left out.
RECURSIVE QuickLoop(_, _, _, _, _, _)
QuickLoop(text, i, field_count, in_string, paren_depth, field_idx) ==
    IF ~(i < Len(text) /\ field_count <= field_idx) THEN "None"
    ELSE LET char == text[i + 1] IN
      IF char = "\\" /\ in_string /\ i + 1 < Len(text)
      THEN QuickLoop(text, i + 2, field_count, in_string, paren_depth, field_idx)
      ELSE IF char = "'"
      THEN IF in_string
           THEN IF i + 1 < Len(text) /\ text[i + 2] = "'"
                THEN QuickLoop(text, i + 2, field_count, TRUE, paren_depth, field_idx)
                ELSE QuickLoop(text, i + 1, field_count, FALSE, paren_depth, field_idx)
           ELSE QuickLoop(text, i + 1, field_count, TRUE, paren_depth, field_idx)
      ELSE IF ~in_string /\ char = "("
      THEN QuickLoop(text, i + 1, field_count, in_string, paren_depth + 1, field_idx)
      ELSE IF ~in_string /\ char = ")"
      THEN IF paren_depth = 0
           THEN IF field_count = field_idx THEN "AttributeError" ELSE "None"
           ELSE QuickLoop(text, i + 1, field_count, in_string, paren_depth - 1, field_idx)
      ELSE IF ~in_string /\ char = "," /\ paren_depth = 0
      THEN IF field_count = field_idx THEN "AttributeError"
           ELSE QuickLoop(text, i + 1, field_count + 1, in_string, paren_depth, field_idx)
      ELSE QuickLoop(text, i + 1, field_count, in_string, paren_depth, field_idx)

QuickExtractField(text, start, field_idx) ==
    QuickLoop(text, start + 1, 0, FALSE, 0, field_idx)

\* dict(zip(columns, values))
RowDict(columns, values) ==
    [ c \in { columns[i] : i \in 1..Len(columns) } |->
        values[CHOOSE i \in 1..Len(columns) : columns[i] = c] ]

\* the three tests that end a pass of the tuple loop (lines 275-284)
TailBreak(buf, split) ==
    \/ Strip(buf) = << >>
    \/ ~split /\ StartsWith(Strip(buf), <<";">>)
    \/ split

Rest(end_pos) == Slice(buffer, end_pos, Len(buffer))

Unchanged ==
    [ buffer |-> buffer, split |-> in_split_format, acc |-> accumulating_tuple,
      rows |-> rows, row_count |-> row_count, skipped |-> skipped_count,
      errors |-> error_count, brk |-> TRUE ]

\* lines 204-217 and 239-250: a tuple the allow-list rejects
SkipOutcome(r) ==
    [ Unchanged EXCEPT !.buffer = Rest(r.end), !.skipped = @ + 1,
                       !.split = FALSE,
                       !.brk = TailBreak(Rest(r.end), in_split_format) ]

\* mutant: the loop is left after the first row of a statement
YieldOutcomeStops(r) ==
    [ Unchanged EXCEPT !.rows = Append(@, RowDict(Columns, r.values)),
                       !.row_count = @ + 1, !.buffer = Rest(r.end),
                       !.acc = FALSE, !.split = FALSE, !.brk = TRUE ]

\* lines 252-260 and 275-284: a row is yielded
YieldOutcome(r) ==
    [ Unchanged EXCEPT !.rows = Append(@, RowDict(Columns, r.values)),
                       !.row_count = @ + 1, !.buffer = Rest(r.end),
                       !.acc = FALSE, !.split = FALSE,
                       !.brk = TailBreak(Rest(r.end), FALSE) ]

\* mutant: a column count mismatch throws the rest of the statement away
MismatchOutcomeDrops(r) ==
    [ Unchanged EXCEPT !.errors = @ + 1, !.buffer = << >>, !.split = FALSE,
                       !.brk = TRUE ]

\* lines 261-284: column count mismatch
MismatchOutcome(r) ==
    [ Unchanged EXCEPT !.errors = @ + 1, !.buffer = Rest(r.end),
                       !.split = FALSE,
                       !.brk = TailBreak(Rest(r.end), in_split_format) ]

\* no value was parsed (an unterminated tuple without a field separator):
\* nothing is consumed, only the tests of lines 275-284 run
EmptyOutcome ==
    [ Unchanged EXCEPT !.split = FALSE,
                       !.brk = TailBreak(buffer, in_split_format) ]

\* lines 226-230: a short tuple in split format waits for more lines
IncompleteOutcome == [ Unchanged EXCEPT !.acc = TRUE ]

\* str(subverse_value).lower() not in filter_lower, for a truthy value
Rejected(v) == Truthy(v) /\ StrLower(v) \notin filter_lower

\* one pass of the "while True" loop of lines 192-321.  No statement of the
\* try block of line 222 raises (_parse_values_tuple and _parse_value catch
\* what they provoke), so the handler of lines 286-321 is never entered.
TupleOutcome ==
    LET paren_start == Find(buffer, "(", 0)
        r == ParseValuesTuple(buffer, paren_start)
        quick == QuickExtractField(buffer, paren_start, subverse_idx)
    IN  IF paren_start = -1 THEN Unchanged
        ELSE IF FilterActive /\ quick \notin {"AttributeError", "None"}
        THEN SkipOutcome(r)
        ELSE IF r.values # << >> /\ in_split_format
                /\ Len(r.values) < Len(Columns)
        THEN IncompleteOutcome
        ELSE IF r.values # << >> /\ Len(r.values) = Len(Columns)
        THEN IF FilterActive /\ Rejected(r.values[subverse_idx + 1])
             THEN SkipOutcome(r)
             ELSE YieldOutcome(r)
        ELSE IF r.values # << >> THEN MismatchOutcome(r)
        ELSE EmptyOutcome

\* mutant: the table name is not checked
StreamStartUnchecked ==
    /\ s_pc = "start"
    /\ s_opened' = TRUE
    /\ s_pc' = IF s_readable /\ s_table \in DOMAIN COLUMN_MAPS THEN "lines" ELSE "done"
    /\ UNCHANGED << bvars, tvars, xvars, sinv, s_next, s_exc, buffer, in_split_format,
                    accumulating_tuple, row_count, skipped_count, error_count,
                    rows >>

\* lines 112-146: the table check, the probe of the file, the open
StreamStart ==
    /\ s_pc = "start"
    /\ IF s_table \notin DOMAIN COLUMN_MAPS
       THEN s_exc' = "ValueError" /\ s_pc' = "raised" /\ UNCHANGED s_opened
       ELSE IF ~s_readable
            THEN s_opened' = TRUE /\ s_pc' = "done" /\ UNCHANGED s_exc
            ELSE s_opened' = TRUE /\ s_pc' = "lines" /\ UNCHANGED s_exc
    /\ UNCHANGED << bvars, tvars, xvars, sinv, s_next, buffer, in_split_format,
                    accumulating_tuple, row_count, skipped_count, error_count,
                    rows >>

\* what lines 148-187 make of one physical line: skip = TRUE for "continue"
LineOutcome(line) ==
    LET stripped == Strip(line)
        same == [ skip |-> TRUE, buffer |-> buffer, split |-> in_split_format,
                  acc |-> accumulating_tuple ]
    IN  IF \/ stripped = << >>
           \/ StartsWith(stripped, <<"-", "-">>)
           \/ StartsWith(stripped, <<"/", "*">>)
        THEN same
        ELSE IF Head(stripped) \in DDLWords /\ StartsWith(Tail(stripped), <<" ">>)
        THEN same
        ELSE IF \E i \in 1..Len(line) : line[i] = InsertToken(s_table)
        THEN LET values_pos == CHOOSE i \in 1..Len(line) :
                                   /\ line[i] \in InsertTokens
                                   /\ \A j \in 1..(i - 1) : line[j] \notin InsertTokens
             IN  [ skip |-> FALSE, buffer |-> Slice(line, values_pos, Len(line)),
                   split |-> FALSE, acc |-> accumulating_tuple ]
        ELSE IF StartsWith(stripped, <<"(">>)
        THEN [ skip |-> FALSE, buffer |-> line, split |-> TRUE, acc |-> FALSE ]
        ELSE IF accumulating_tuple \/ in_split_format
        THEN [ skip |-> FALSE, buffer |-> buffer \o line,
               split |-> in_split_format, acc |-> accumulating_tuple ]
        ELSE same

\* the "for line in f" loop takes the next line, or ends the generator
ReadLine ==
    /\ s_pc = "lines"
    /\ IF s_next >= Len(s_file)
       THEN /\ s_pc' = "done"
            /\ UNCHANGED << s_next, buffer, in_split_format, accumulating_tuple >>
       ELSE LET o == LineOutcome(s_file[s_next + 1])
            IN  /\ s_next' = s_next + 1
                /\ buffer' = o.buffer
                /\ in_split_format' = o.split
                /\ accumulating_tuple' = o.acc
                /\ s_pc' = IF ~o.skip /\ o.buffer # << >> THEN "tuples" ELSE "lines"
    /\ UNCHANGED << bvars, tvars, xvars, sinv, s_opened, s_exc, row_count,
                    skipped_count, error_count, rows >>

TupleStep ==
    /\ s_pc = "tuples"
    /\ LET o == TupleOutcome
       IN  /\ buffer' = o.buffer
           /\ in_split_format' = o.split
           /\ accumulating_tuple' = o.acc
           /\ rows' = o.rows
           /\ row_count' = o.row_count
           /\ skipped_count' = o.skipped
           /\ error_count' = o.errors
           /\ s_pc' = IF o.brk THEN "lines" ELSE "tuples"
    /\ UNCHANGED << bvars, tvars, xvars, sinv, s_next, s_opened, s_exc >>

SNext == StreamStart \/ ReadLine \/ TupleStep

(***************************************************************************)
(* Dump files given to stream_rows                                         *)
(***************************************************************************)
Fd(txt) == [ txt |-> txt, kind |-> "other" ]

\* tuples of two and of three fields: each is well-formed for one table
\* and has the wrong field count for the other
StreamTuples ==
    { << Fd(<<"1">>), Fd(<<"'", "a", "'">>) >>,
      << Fd(<<"3">>), Fd(<<"N", "U", "L", "L">>) >>,
      << Fd(<<"1">>), Fd(<<"'", "a", "'">>), Fd(<<"'", ")", ",", "(", "'">>) >>,
      << Fd(<<"2">>), Fd(<<"'", "B", "'">>), Fd(<<"'", "b", ";", "'">>) >>,
      << Fd(<<"3">>), Fd(<<"'", "'">>), Fd(<<"'", "\\", "'", "'">>) >> }

RECURSIVE JoinTuples(_)
JoinTuples(ts) ==
    IF ts = << >> THEN << >>
    ELSE IF Len(ts) = 1 THEN TupleText(ts[1])
    ELSE TupleText(ts[1]) \o <<",">> \o JoinTuples(Tail(ts))

\* one extended INSERT statement, as mysqldump writes it, on one line
StatementLine(table, ts) ==
    << InsertToken(table), " " >> \o JoinTuples(ts) \o <<";", "LF">>

\* the tuples ts written as statements that end after the positions in cuts
RECURSIVE StatementLines(_, _, _, _)
StatementLines(table, ts, cuts, lo) ==
    IF lo > Len(ts) THEN << >>
    ELSE LET later == { c \in cuts : c >= lo }
             hi == IF later = { } THEN Len(ts)
                   ELSE CHOOSE c \in later : \A d \in later : c <= d
         IN  << StatementLine(table, SubSeq(ts, lo, hi)) >>
               \o StatementLines(table, ts, cuts, hi + 1)

OtherTable(table) == IF table = "submission" THEN "comment" ELSE "submission"

\* what a dump holds around the statements of the wanted table: a comment,
\* DDL, a blank line, the other table's statement, a line of no known form
HeaderLines(table) ==
    << <<"-", "-", " ", "x", "LF">>,
       <<"DROP", " ", "x", ";", "LF">>,
       <<"LF">>,
       StatementLine(OtherTable(table), << << Fd(<<"9">>), Fd(<<"'", "a", "'">>) >> >>) >>

TrailerLines == << <<"/", "*", "x", "LF">>, <<"x", "LF">> >>

DumpFile(table, ts, cuts, layout) ==
    IF layout = "bare" THEN StatementLines(table, ts, cuts, 1)
    ELSE HeaderLines(table) \o StatementLines(table, ts, cuts, 1) \o TrailerLines

\* no tuple at all gives the empty archive (layout bare) or an archive
\* without a statement of the wanted table (layout dressed)
TupleSeqs == UNION { [ 1..n -> StreamTuples ] : n \in 0..MaxTuples }

CutSets(n) ==
    { c \in SUBSET (1..(n - 1)) : Cardinality(c) <= MaxStatements - 1 }

Filters == { << >>, << <<"A">>, <<"x">> >> }

SInit ==
    /\ s_table \in {"submission", "comment", "post"}
    /\ s_filter \in Filters
    /\ s_readable \in BOOLEAN
    /\ s_table = "post" \/ ~s_readable => s_filter = << >>
    /\ s_tuples \in TupleSeqs
    /\ \E cuts \in CutSets(Len(s_tuples)), layout \in {"bare", "dressed"} :
         s_file = DumpFile(IF s_table = "post" THEN "comment" ELSE s_table,
                           s_tuples, cuts, layout)
    /\ s_pc = "start"
    /\ s_next = 0
    /\ s_opened = FALSE
    /\ s_exc = "none"
    /\ buffer = << >>
    /\ in_split_format = FALSE
    /\ accumulating_tuple = FALSE
    /\ row_count = 0
    /\ skipped_count = 0
    /\ error_count = 0
    /\ rows = << >>

StreamInit == BIdle /\ TIdle /\ XIdle /\ SInit

SpecStream == StreamInit /\ [][SNext]_vars

(***************************************************************************)
(* Dump files in the split layout, and truncated dump files                *)
(***************************************************************************)
\* text of a string column: one line, two lines, a blank line inside, a
\* second line that begins with a parenthesis
SplitTexts ==
    { <<"a">>,
      <<"a", "LF", "b">>,
      <<"a", "LF", "LF", "b">>,
      <<"a", "LF", "(", "7", ",", "8", ")">> }

\* key columns as the dump writes them; the second has a line break after
\* the number
SplitKeys == { <<"1">>, <<"2", "LF">> }

Quoted(txt) == <<"'">> \o txt \o <<"'">>

\* a tuple with as many fields as the table has columns
SplitTuple(table, key, txt) ==
    IF table = "comment" THEN << Fd(key), Fd(Quoted(txt)) >>
    ELSE << Fd(key), Fd(<<"'", "s", "'">>), Fd(Quoted(txt)) >>

SplitTuplesOf(table) ==
    { SplitTuple(table, key, txt) : key \in SplitKeys, txt \in SplitTexts }

\* the physical lines "for line in f" takes from a text: each ends with its
\* LF, the last one may lack it
RECURSIVE PhysicalLines(_)
PhysicalLines(text) ==
    IF text = << >> THEN << >>
    ELSE LET k == Find(text, "LF", 0)
         IN  IF k = -1 THEN << text >>
             ELSE << Slice(text, 0, k + 1) >>
                    \o PhysicalLines(Slice(text, k + 1, Len(text)))

\* split layout: each tuple starts a line, without INSERT, and is followed
\* by a comma or, for the last one, a semicolon
RECURSIVE SplitText(_)
SplitText(ts) ==
    IF ts = << >> THEN << >>
    ELSE TupleText(ts[1]) \o << IF Len(ts) = 1 THEN ";" ELSE ",", "LF" >>
           \o SplitText(Tail(ts))

\* standard layout: one extended INSERT statement
StandardText(table, ts) ==
    IF ts = << >> THEN << >> ELSE StatementLine(table, ts)

LayoutText(table, ts, layout) ==
    IF layout = "split" THEN SplitText(ts) ELSE StandardText(table, ts)

\* a dump file whose text was cut off after keep characters
TruncatedFile(text, keep) == PhysicalLines(Slice(text, 0, keep))

SplitInit ==
    /\ s_table \in {"submission", "comment"}
    /\ s_filter \in Filters
    /\ s_readable = TRUE
    /\ s_tuples \in UNION { [ 1..n -> SplitTuplesOf(s_table) ] : n \in 1..MaxSplitTuples }
    /\ \E layout \in {"split", "standard"} :
         LET text == LayoutText(s_table, s_tuples, layout)
         IN  \E keep \in 1..Len(text) : s_file = TruncatedFile(text, keep)
    /\ s_pc = "start"
    /\ s_next = 0
    /\ s_opened = FALSE
    /\ s_exc = "none"
    /\ buffer = << >>
    /\ in_split_format = FALSE
    /\ accumulating_tuple = FALSE
    /\ row_count = 0
    /\ skipped_count = 0
    /\ error_count = 0
    /\ rows = << >>

SplitStreamInit == BIdle /\ TIdle /\ XIdle /\ SplitInit

SpecSplit == SplitStreamInit /\ [][SNext]_vars

(***************************************************************************)
(* read_and_decode and read_lines_zst                                      *)
(***************************************************************************)
\* characters of one, two and three bytes, and the newline
ZChars == {"a", "LF", "U2", "U3"}

\* str.encode(): the UTF-8 bytes of one character
EncodeChar(c) ==
    CASE c = "a" -> <<"61">>
      [] c = "LF" -> <<"0A">>
      [] c = "U2" -> <<"C3", "A9">>
      [] c = "U3" -> <<"E2", "82", "AC">>

RECURSIVE Encode(_)
Encode(text) ==
    IF text = << >> THEN << >> ELSE EncodeChar(Head(text)) \o Encode(Tail(text))

\* bytes.decode(): strict UTF-8; ok is FALSE for UnicodeDecodeError
RECURSIVE Decode(_)
Decode(bytes) ==
    IF bytes = << >> THEN [ ok |-> TRUE, text |-> << >> ]
    ELSE LET c == CHOOSE x \in ZChars \cup {"none"} :
                    IF \E y \in ZChars : StartsWith(bytes, EncodeChar(y))
                    THEN x # "none" /\ StartsWith(bytes, EncodeChar(x))
                    ELSE x = "none"
         IN  IF c = "none" THEN [ ok |-> FALSE, text |-> << >> ]
             ELSE LET rest == Decode(Slice(bytes, Len(EncodeChar(c)), Len(bytes)))
                  IN  [ ok |-> rest.ok, text |-> <<c>> \o rest.text ]

\* the ceiling read_lines_zst passes: (2**29) * 2 for a chunk of 2**27
max_window_size == 8 * z_chunk_size

\* read_and_decode with the reader at offset pos.  reader.read returns
\* chunk_size bytes, fewer only at the end of the stream; bytes_read grows
\* by chunk_size whatever was returned.
RECURSIVE read_and_decode_late(_, _, _)
\* mutant: the ceiling is tested against the bytes read before this call
read_and_decode_late(pos, previous_chunk, bytes_read) ==
    LET end == Min2(pos + z_chunk_size, Len(z_bytes))
        chunk == previous_chunk \o Slice(z_bytes, pos, end)
        read == bytes_read + z_chunk_size
        d == Decode(chunk)
    IN  IF d.ok THEN [ exc |-> "none", text |-> d.text, pos |-> end,
                       bytes_read |-> read ]
        ELSE IF bytes_read > max_window_size
        THEN [ exc |-> "UnicodeError", text |-> << >>, pos |-> end,
               bytes_read |-> read ]
        ELSE read_and_decode_late(end, chunk, read)

RECURSIVE read_and_decode(_, _, _)
read_and_decode(pos, previous_chunk, bytes_read) ==
    LET end == Min2(pos + z_chunk_size, Len(z_bytes))
        chunk == previous_chunk \o Slice(z_bytes, pos, end)
        read == bytes_read + z_chunk_size
        d == Decode(chunk)
    IN  IF d.ok THEN [ exc |-> "none", text |-> d.text, pos |-> end,
                       bytes_read |-> read ]
        ELSE IF read > max_window_size
        THEN [ exc |-> "UnicodeError", text |-> << >>, pos |-> end,
               bytes_read |-> read ]
        ELSE read_and_decode(end, chunk, read)

\* str.split("\n"): the pieces between newlines, at least one
RECURSIVE SplitLF(_)
SplitLF(text) ==
    LET nl == Find(text, "LF", 0)
    IN  IF nl = -1 THEN << text >>
        ELSE << Slice(text, 0, nl) >> \o SplitLF(Slice(text, nl + 1, Len(text)))

\* one pass of the loop of lines 46-56 with every yield of line 54
ReadChunk ==
    /\ z_pc = "loop"
    /\ LET r == read_and_decode(z_pos, << >>, 0)
           lines == SplitLF(z_buffer \o r.text)
       IN  /\ z_pos' = r.pos
           /\ z_last' = [ exc |-> r.exc, bytes_read |-> r.bytes_read ]
           /\ IF r.exc # "none"
              THEN z_pc' = "raised" /\ UNCHANGED << z_buffer, z_lines >>
              ELSE IF r.text = << >>
              THEN z_pc' = "done" /\ UNCHANGED << z_buffer, z_lines >>
              ELSE /\ z_lines' = z_lines \o SubSeq(lines, 1, Len(lines) - 1)
                   /\ z_buffer' = lines[Len(lines)]
                   /\ z_pc' = "loop"
    /\ UNCHANGED << notz, z_text, z_bytes, z_chunk_size >>

ZTexts == UNION { [ 1..n -> ZChars ] : n \in 0..MaxTextLen }

\* an archive is the encoding of a text, or that encoding cut short by one
\* byte (which is undecodable when the cut falls inside a character)
ZInit ==
    /\ z_text \in ZTexts
    /\ z_bytes \in { Encode(z_text) } \cup
                   { Slice(Encode(z_text), 0, Len(Encode(z_text)) - 1) :
                       x \in { y \in {1} : z_text # << >> } }
    /\ z_chunk_size \in 1..MaxChunk
    /\ z_pos = 0
    /\ z_buffer = << >>
    /\ z_lines = << >>
    /\ z_last = [ exc |-> "none", bytes_read |-> 0 ]
    /\ z_pc = "loop"

ZstInit ==
    BIdle /\ TIdle /\ SIdle /\ KIdle /\ IIdle /\ UIdle /\ DIdle /\ PIdle /\ ZInit

SpecZst == ZstInit /\ [][ReadChunk]_vars

(***************************************************************************)
(* Progress Tracker (storage contract of spec section 4.5)                 *)
(***************************************************************************)
Statuses == {"pending", "importing", "imported", "exporting", "completed", "failed"}

\* a counter is passed as a number or not passed (written -1);
\* error_message is passed as a text, passed as None, or not passed
CounterArgs == (-1)..MaxCount
ErrorArgs == {"absent", "None", "e"}

Calls ==
    [ community : Communities, status : Statuses, posts_imported : CounterArgs,
      error_message : ErrorArgs ]

\* mutant: error_message passed as None leaves the stored message in place
StoreKeepsMessage(row, call) ==
    [ status |-> call.status,
      posts_imported |-> IF call.posts_imported = -1 THEN row.posts_imported
                         ELSE call.posts_imported,
      error_message |-> IF call.error_message \in {"absent", "None"}
                        THEN row.error_message
                        ELSE call.error_message ]

\* mutant: a counter passed is added to the stored counter
StoreAdding(row, call) ==
    [ status |-> call.status,
      posts_imported |-> IF call.posts_imported = -1 THEN row.posts_imported
                         ELSE Min2(row.posts_imported + call.posts_imported, MaxCount + 1),
      error_message |-> IF call.error_message = "absent" THEN row.error_message
                        ELSE call.error_message ]

\* the row update_progress_status stores: the status as given, every
\* keyword passed as given, every keyword not passed as it was (0 and None
\* for a new row)
Store(row, call) ==
    [ status |-> call.status,
      posts_imported |-> IF call.posts_imported = -1 THEN row.posts_imported
                         ELSE call.posts_imported,
      error_message |-> IF call.error_message = "absent" THEN row.error_message
                        ELSE call.error_message ]

\* how far the recovery scenario has come for the community of the call
NextStage(call) ==
    LET row == k_rows[call.community]
        same == call.community = k_last.community
    IN  IF k_stage = 1 /\ same /\ call.status = "importing"
           /\ call.posts_imported = 0 /\ call.error_message = "None"
        THEN 2
        ELSE IF k_stage = 2 /\ same /\ call.status = "imported"
                /\ call.posts_imported # -1 /\ call.error_message = "absent"
        THEN 3
        ELSE IF call.status = "failed" /\ call.error_message = "e"
        THEN 1
        ELSE 0

update_progress_status ==
    \E call \in Calls :
        /\ k_rows' = [ k_rows EXCEPT ![call.community] = Store(@, call) ]
        /\ k_last' = call
        /\ k_repeat' = (call = k_last)
        /\ k_stage' = NextStage(call)
        /\ k_answer' = NoAnswer
        /\ UNCHANGED notk

\* get_progress_status(community)
get_progress_status(c) == k_rows[c]

\* mutant: the import-phase query leaves out the communities being imported
get_pending_subreddits_pending_only(mode) ==
    IF mode = "import"
    THEN { c \in Communities : k_rows[c].status \in {"pending"} }
    ELSE { c \in Communities : k_rows[c].status \in {"imported", "exporting", "completed"} }

\* get_pending_subreddits(mode): the communities a phase has to look at
get_pending_subreddits(mode) ==
    IF mode = "import"
    THEN { c \in Communities : k_rows[c].status \in {"pending", "importing"} }
    ELSE { c \in Communities : k_rows[c].status \in {"imported", "exporting", "completed"} }

\* get_all_imported_subreddits(): the communities the export phase covers
get_all_imported_subreddits ==
    { c \in Communities : k_rows[c].status \in {"imported", "exporting", "completed"} }

\* one of the queries is asked
Query ==
    /\ k_last # NoCall
    /\ \E q \in {"import", "export", "all_imported"} :
         k_answer' = [ query |-> q,
                       result |-> IF q = "all_imported" THEN get_all_imported_subreddits
                                  ELSE get_pending_subreddits(q) ]
    /\ UNCHANGED << notk, k_rows, k_last, k_repeat, k_stage >>

KNext == update_progress_status \/ Query

TrackerInit ==
    BIdle /\ TIdle /\ SIdle /\ ZIdle /\ IIdle /\ UIdle /\ DIdle /\ PIdle /\ KIdle

SpecTracker == TrackerInit /\ [][KNext]_vars

(***************************************************************************)
(* BaseImporter.prefix_id                                                  *)
(***************************************************************************)
\* PLATFORM_ID of the three importers, as characters
PLATFORM_ID ==
    [ reddit |-> <<"r", "e", "d", "d", "i", "t">>,
      voat |-> <<"v", "o", "a", "t">>,
      ruqqus |-> <<"r", "u", "q", "q", "u", "s">> ]

Platforms == DOMAIN PLATFORM_ID

\* str(raw_id) inside the f-string
StrOf(v) ==
    CASE v.t = "int" -> IF v.n < 0 THEN <<"-">> \o NatChars(0 - v.n) ELSE NatChars(v.n)
      [] v.t = "null" -> <<"N", "o", "n", "e">>
      [] OTHER -> v.s

\* mutant: the raw id is returned without the platform
prefix_id_bare(platform, raw_id) == StrOf(raw_id)

\* f"{self.PLATFORM_ID}_{raw_id}"
prefix_id(platform, raw_id) == PLATFORM_ID[platform] \o <<"_">> \o StrOf(raw_id)

\* characters of raw ids: a digit, a letter that also begins a platform
\* name, the separator itself
IdChars == {"1", "r", "_"}

RawIds ==
    { StrV(txt) : txt \in UNION { [ 1..n -> IdChars ] : n \in 1..MaxIdLen } }
      \cup { IntV(k) : k \in 0..MaxIdInt }

SourceRecords == [ platform : Platforms, raw_id : RawIds ]

IInit ==
    /\ i_a \in SourceRecords
    /\ i_b \in SourceRecords
    /\ i_id_a = << >>
    /\ i_id_b = << >>
    /\ i_pc = "ready"

\* both records are normalized
PrefixIds ==
    /\ i_pc = "ready"
    /\ i_id_a' = prefix_id(i_a.platform, i_a.raw_id)
    /\ i_id_b' = prefix_id(i_b.platform, i_b.raw_id)
    /\ i_pc' = "prefixed"
    /\ UNCHANGED << noti, i_a, i_b >>

PrefixInit ==
    BIdle /\ TIdle /\ SIdle /\ ZIdle /\ KIdle /\ UIdle /\ DIdle /\ PIdle /\ IInit

SpecPrefix == PrefixInit /\ [][PrefixIds]_vars

(***************************************************************************)
(* _calculate_optimal_batch_size called on its own                         *)
(***************************************************************************)
\* sizes with min <= current <= max, up to MaxTuneSize; auto-tuning is on,
\* as it is whenever process_batches calls the tuner
TuneConfigs ==
    { [ min_batch_size |-> lo, max_batch_size |-> hi, auto_tune_enabled |-> TRUE ] :
      lo \in 1..MaxTuneSize, hi \in 1..MaxTuneSize }

UInit ==
    /\ u_config \in TuneConfigs
    /\ u_current \in 1..MaxTuneSize
    /\ u_config.min_batch_size <= u_current
    /\ u_current <= u_config.max_batch_size
    /\ u_speed \in SpeedSamples
    /\ u_memory \in MemorySamples
    /\ u_new = u_current
    /\ u_pc = "ready"

\* lines 415-419 for one pair of samples
Tune ==
    /\ u_pc = "ready"
    /\ u_new' = CalculateOptimalBatchSize(u_config, u_current, u_speed, u_memory)
    /\ u_pc' = "tuned"
    /\ UNCHANGED << notu, u_config, u_current, u_speed, u_memory >>

TuneInit ==
    BIdle /\ TIdle /\ SIdle /\ ZIdle /\ KIdle /\ IIdle /\ DIdle /\ PIdle /\ UInit

SpecTune == TuneInit /\ [][Tune]_vars

(***************************************************************************)
(* Two loaders tuned with the same samples                                 *)
(***************************************************************************)
Loaders == {"a", "b"}

\* _validate_adjustment_effectiveness: the prediction
ValidateAdjustmentEffectiveness(new_size, memory_factor, performance_factor, memory_usage, history) ==
    LET recent == { i \in 1..Len(history) : i > Len(history) - 10 }
        recent_large_batches == Cardinality({ i \in recent : history[i] >= new_size })
        by_memory == IF memory_factor[1] < memory_factor[2]
                     THEN 10 * memory_usage > 9 * memory_threshold_mb
                     ELSE TRUE
    IN  IF performance_factor[1] > performance_factor[2] /\ recent_large_batches >= 3
        THEN FALSE
        ELSE by_memory

\* mutant: a change predicted ineffective is not adopted
TuneLoaderGated(cfg, cur, processing_speed, memory_usage, history, counters) ==
    LET new == CandidateSize(cfg, cur, processing_speed, memory_usage)
        ok == ValidateAdjustmentEffectiveness(new, MemoryFactor(memory_usage),
                  PerformanceFactor(processing_speed), memory_usage, history)
    IN  IF ~cfg.auto_tune_enabled \/ ~Significant(cur, new)
        THEN [ size |-> cur, counters |-> counters ]
        ELSE [ size |-> IF ok THEN new ELSE cur,
               counters |-> IF ok
                            THEN [ counters EXCEPT !.adjustments_successful = @ + 1 ]
                            ELSE [ counters EXCEPT !.adjustments_failed = @ + 1 ] ]

\* _calculate_optimal_batch_size of a monitored loader, lines 191-213: the
\* size it returns and the counters it leaves
TuneLoader(cfg, cur, processing_speed, memory_usage, history, counters) ==
    LET new == CandidateSize(cfg, cur, processing_speed, memory_usage)
        ok == ValidateAdjustmentEffectiveness(new, MemoryFactor(memory_usage),
                  PerformanceFactor(processing_speed), memory_usage, history)
    IN  IF ~cfg.auto_tune_enabled \/ ~Significant(cur, new)
        THEN [ size |-> cur, counters |-> counters ]
        ELSE [ size |-> new,
               counters |-> IF ok
                            THEN [ counters EXCEPT !.adjustments_successful = @ + 1 ]
                            ELSE [ counters EXCEPT !.adjustments_failed = @ + 1 ] ]

\* performance_history.append, lines 320-336
AppendHistory(history, batch_size) ==
    LET h == Append(history, batch_size)
    IN  IF Len(h) > 100 THEN Tail(h) ELSE h

PairConfigs ==
    { c \in TuneConfigs : c.min_batch_size <= 2 /\ c.max_batch_size >= MaxTuneSize - 1 }

\* no history, or three batches of the largest size
PairHistories == { << >>, << MaxTuneSize, MaxTuneSize, MaxTuneSize >> }

PairCounters ==
    { [ adjustments_successful |-> 0, adjustments_failed |-> 0 ],
      [ adjustments_successful |-> 1, adjustments_failed |-> 2 ] }

PInit ==
    /\ p_config \in PairConfigs
    /\ \E initial \in { p_config.min_batch_size, p_config.max_batch_size } :
         p_size = [ l \in Loaders |-> initial ]
    /\ p_history \in [ Loaders -> PairHistories ]
    /\ p_counters \in [ Loaders -> PairCounters ]
    /\ p_batches = 0
    /\ p_pc = "run"

\* one batch of each loader, lines 393-419: the metrics update, then the
\* tuner with the same samples for both
PairBatch ==
    /\ p_pc = "run"
    /\ p_batches < MaxPairBatches
    /\ \E processing_speed \in SpeedSamples, memory_usage \in MemorySamples,
          short \in BOOLEAN :
         LET len(l) == IF short THEN 1 ELSE p_size[l]
             hist(l) == AppendHistory(p_history[l], len(l))
             r(l) == TuneLoader(p_config, p_size[l], processing_speed, memory_usage,
                                hist(l), p_counters[l])
         IN  /\ p_history' = [ l \in Loaders |-> hist(l) ]
             /\ p_size' = [ l \in Loaders |-> r(l).size ]
             /\ p_counters' = [ l \in Loaders |-> r(l).counters ]
    /\ p_batches' = p_batches + 1
    /\ UNCHANGED << notp, p_config, p_pc >>

PairInit == BIdle /\ TIdle /\ SIdle /\ ZIdle /\ KIdle /\ IIdle /\ UIdle /\ DIdle /\ PInit

SpecPair == PairInit /\ [][PairBatch]_vars

(***************************************************************************)
(* stream_to_database                                                      *)
(***************************************************************************)
IngestLines == UNION { [ 1..n -> {"good", "bad"} ] : n \in 0..MaxLines }

DInit ==
    /\ d_exists \in BOOLEAN
    /\ d_record_type \in {"posts", "comments", "users"}
    /\ d_supplied \in BOOLEAN
    /\ d_batch_size \in 1..MaxFlush
    /\ d_lines \in IngestLines
    /\ d_corrupt_after \in (-1)..Len(d_lines)
    /\ d_next = 0
    /\ batch_records = << >>
    /\ records_processed = 0
    /\ bad_lines = 0
    /\ should_close_db = FALSE
    /\ d_flushed = << >>
    /\ d_cleanups = 0
    /\ d_cause = "none"
    /\ d_pc = "start"

\* lines 136-161: the two argument checks raise before a handle exists;
\* then a handle is created unless one was passed
IngestStart ==
    /\ d_pc = "start"
    /\ IF ~d_exists
       THEN d_cause' = "FileNotFoundError" /\ d_pc' = "raised"
            /\ UNCHANGED should_close_db
       ELSE IF d_record_type \notin {"posts", "comments"}
       THEN d_cause' = "ValueError" /\ d_pc' = "raised"
            /\ UNCHANGED should_close_db
       ELSE /\ should_close_db' = ~d_supplied
            /\ d_pc' = "read"
            /\ UNCHANGED d_cause
    /\ UNCHANGED << notd, d_exists, d_record_type, d_supplied, d_batch_size, d_lines,
                    d_corrupt_after, d_next, batch_records, records_processed,
                    bad_lines, d_flushed, d_cleanups >>

\* lines 165-208: the for loop takes one line, or the reader
\* raises, or the loop ends
IngestLine ==
    /\ d_pc = "read"
    /\ IF d_next = d_corrupt_after
       THEN /\ d_cause' = "UnicodeError"
            /\ d_pc' = "except"
            /\ UNCHANGED << d_next, batch_records, records_processed, bad_lines >>
       ELSE IF d_next >= Len(d_lines)
       THEN /\ d_pc' = IF batch_records # << >> THEN "flush_rest" ELSE "return"
            /\ UNCHANGED << d_next, batch_records, records_processed, bad_lines,
                            d_cause >>
       ELSE LET good == d_lines[d_next + 1] = "good"
                held == IF good THEN Append(batch_records, d_next + 1)
                        ELSE batch_records
            IN  /\ d_next' = d_next + 1
                /\ batch_records' = held
                /\ records_processed' = records_processed + (IF good THEN 1 ELSE 0)
                /\ bad_lines' = bad_lines + (IF good THEN 0 ELSE 1)
                /\ d_pc' = IF Len(held) >= d_batch_size THEN "flush" ELSE "read"
                /\ UNCHANGED d_cause
    /\ UNCHANGED << notd, d_exists, d_record_type, d_supplied, d_batch_size, d_lines,
                    d_corrupt_after, should_close_db, d_flushed, d_cleanups >>

\* _flush_batch_to_database returns: the batch is stored and cleared
FlushBatch ==
    /\ d_pc \in {"flush", "flush_rest"}
    /\ d_flushed' = Append(d_flushed, batch_records)
    /\ batch_records' = << >>
    /\ d_pc' = IF d_pc = "flush" THEN "read" ELSE "return"
    /\ UNCHANGED << notd, d_exists, d_record_type, d_supplied, d_batch_size, d_lines,
                    d_corrupt_after, d_next, records_processed, bad_lines,
                    should_close_db, d_cleanups, d_cause >>

\* lines 266-278: the insert raises and _flush_batch_to_database re-raises
FlushBatchRaises ==
    /\ d_pc \in {"flush", "flush_rest"}
    /\ d_cause' = "flush"
    /\ d_pc' = "except"
    /\ UNCHANGED << notd, d_exists, d_record_type, d_supplied, d_batch_size, d_lines,
                    d_corrupt_after, d_next, batch_records, records_processed,
                    bad_lines, should_close_db, d_flushed, d_cleanups >>

\* mutant: the handle is released only when the call returns normally
IngestFinallyOnReturn ==
    /\ d_pc \in {"return", "except"}
    /\ d_cleanups' = IF should_close_db /\ d_pc = "return" THEN d_cleanups + 1
                     ELSE d_cleanups
    /\ d_pc' = IF d_pc = "return" THEN "returned" ELSE "raised"
    /\ UNCHANGED << notd, d_exists, d_record_type, d_supplied, d_batch_size, d_lines,
                    d_corrupt_after, d_next, batch_records, records_processed,
                    bad_lines, should_close_db, d_flushed, d_cause >>

\* lines 225-241: the return, or the except clause that raises
\* PostgresDatabaseError, and in both cases the finally clause
IngestFinally ==
    /\ d_pc \in {"return", "except"}
    /\ d_cleanups' = IF should_close_db THEN d_cleanups + 1 ELSE d_cleanups
    /\ d_pc' = IF d_pc = "return" THEN "returned" ELSE "raised"
    /\ UNCHANGED << notd, d_exists, d_record_type, d_supplied, d_batch_size, d_lines,
                    d_corrupt_after, d_next, batch_records, records_processed,
                    bad_lines, should_close_db, d_flushed, d_cause >>

DNext == IngestStart \/ IngestLine \/ FlushBatch \/ FlushBatchRaises \/ IngestFinally

IngestInit == BIdle /\ TIdle /\ SIdle /\ ZIdle /\ KIdle /\ IIdle /\ UIdle /\ PIdle /\ DInit

SpecIngest == IngestInit /\ [][DNext]_vars

(***************************************************************************)
(* Interruption and resume of an import                                    *)
(***************************************************************************)
Running == pc \in {"loop", "begin", "op", "commit", "callback", "tune",
                   "except", "final"}

\* KeyboardInterrupt / SystemExit are not subclasses of Exception: the
\* "except Exception" clause of the batch lets them through at whatever
\* statement they arrive.  No ROLLBACK and no callback runs; the open
\* transaction is lost with the connection.
Interrupt ==
    /\ Running
    /\ interrupts < MaxInterrupts
    /\ interrupts' = interrupts + 1
    /\ inflight' = << >>
    /\ raised' = TRUE
    /\ pc' = "interrupted"
    /\ UNCHANGED << otherv, cfgv, current_batch_size, metrics, loopv, cntv, op_result,
                    sql_log, committed, histv, exc_from, persisted >>

\* the resumed import is a new process with a new BatchProcessor: it reads
\* the community's tracker row and hands the records after the recorded
\* position to process_batches
Resume ==
    /\ pc = "interrupted"
    /\ base' = [ processed |-> persisted.processed, errors |-> persisted.errors ]
    /\ data' = Slice(source, persisted.processed + persisted.errors, Len(source))
    /\ current_batch_size' = config.initial_batch_size
    /\ metrics' = InitMetrics
    /\ sql_log' = << >>
    /\ batch' = <<0, 0>>
    /\ op_result' = [ inserted |-> 0, errors |-> 0 ]
    /\ exc_from' = "none"
    /\ raised' = FALSE
    /\ pc' = "idle"
    /\ UNCHANGED << otherv, config, enable_monitoring, source, range_step,
                    batch_start, cntv, inflight, committed, histv, persisted, interrupts >>

RInit ==
    /\ BInit
    /\ TIdle
    /\ SIdle
    /\ XIdle
    /\ config.progress_callback_interval = 1
    /\ config.transaction_scope = "batch"
    /\ ~config.auto_tune_enabled
    /\ config.min_batch_size = 1
    /\ config.max_batch_size = MaxBatchSize
    /\ \A i \in 1..Len(source) : source[i].subreddit # ""

RNext == BNext \/ Interrupt \/ Resume

SpecResume == RInit /\ [][RNext]_vars

(***************************************************************************)
(* Properties of the batch loader                                          *)
(***************************************************************************)
NoDuplicates(s) == \A i, j \in 1..Len(s) : s[i] = s[j] => i = j

\* C1: whenever the import is interrupted the tracker row accounts for
\* exactly the committed records, no record is ever committed twice, and a
\* resumed import that ends without failed records has committed every
\* record of the source exactly once.
C1_ExactResume ==
    /\ pc = "interrupted" => persisted.processed = Len(committed)
    /\ NoDuplicates(committed)
    /\ (pc = "done" /\ ~raised /\ persisted.errors = 0)
           => committed = Ids(source)

NoBeginFailure == \A i \in 1..Len(handled) : handled[i] # "begin"

\* C2: the slices handed to batch_operation are consecutive (each starts
\* where the previous one ended, the first at 0) and, once the loop is
\* over, reach the end of the validated input.
C2_ConsecutiveCover ==
    NoBeginFailure =>
        /\ \A i \in 1..Len(handed) :
               handed[i][1] = (IF i = 1 THEN 0 ELSE handed[i - 1][2])
        /\ (pc = "final" /\ validated_data # << >>)
               => /\ handed # << >>
                  /\ handed[Len(handed)][2] = Len(validated_data)

HandlingOpOrCommitFailure == pc = "except" /\ exc_from \in {"op", "commit"}

\* C3 as claimed: every failure of batch_operation or COMMIT is followed by
\* a ROLLBACK, the batch length is added to total_errors, nothing is
\* raised to the caller and the loop goes on.
C3_RollbackAlways ==
    [][ HandlingOpOrCommitFailure =>
          /\ sql_log' = Append(sql_log, "ROLLBACK")
          /\ total_errors' = total_errors + BatchLen
          /\ ~raised'
          /\ pc' = "loop" ]_vars

\* number of values range(0, n, step) yields
RangeLen(n, step) == (n + step - 1) \div step

\* C3 amended: as C3, with the ROLLBACK issued exactly when
\* transaction_scope is "batch"; and when the loop is over every value of
\* the range has been attempted, whatever failed before.
C3_RollbackInBatchScope ==
    /\ [][ HandlingOpOrCommitFailure =>
             /\ sql_log' = (IF config.transaction_scope = "batch"
                            THEN Append(sql_log, "ROLLBACK") ELSE sql_log)
             /\ total_errors' = total_errors + BatchLen
             /\ total_processed' = total_processed
             /\ ~raised'
             /\ pc' = "loop"
             /\ batch_start' = batch_start ]_vars
    /\ [](pc = "final" => attempted = RangeLen(Len(validated_data), range_step))

\* a batch ran to its commit point after an earlier batch failed in
\* batch_operation or COMMIT under batch scope
C3_Witness ==
    /\ pc = "callback"
    /\ config.transaction_scope = "batch"
    /\ handled # << >>
    /\ handled[Len(handled)] \in {"op", "commit"}
    /\ total_errors > 0

\* C4: the current batch size never leaves [min_batch_size, max_batch_size]
C4_SizeWithinBounds ==
    /\ config.min_batch_size <= current_batch_size
    /\ current_batch_size <= config.max_batch_size

\* the auto-tuner has changed the size at least twice
C4_Witness ==
    /\ metrics.auto_adjustments >= 2
    /\ current_batch_size # config.initial_batch_size

(***************************************************************************)
(* Properties of the SQL dump parser                                       *)
(***************************************************************************)
Example1 == <<"(", "1", ",", "'", "h", "e", "l", "l", "o", "'", ",",
              "N", "U", "L", "L", ")">>
Example2 == <<"(", "N", "U", "L", "L", ",", "'", "'", ",", "1", ")">>

\* C5: an unquoted NULL keyword and an unquoted empty field parse to null,
\* a quoted empty string parses to the empty string, nothing else parses to
\* the empty string unless it was quoted, and the two examples of the spec
\* give [1, "hello", null] and [null, "", 1].
C5_NullVersusEmpty ==
    (t_pc = "parsed" /\ t_input.kind = "tuple") =>
        /\ Len(t_result.values) = Len(t_input.fields)
        /\ \A i \in 1..Len(t_input.fields) :
             /\ t_input.fields[i] \in {"nullkw", "empty"}
                    => t_result.values[i] = NullV
             /\ t_input.fields[i] = "qempty"
                    => t_result.values[i] = StrV(<< >>)
        /\ t_input.text = Example1
               => t_result.values = << IntV(1), StrV(<<"h", "e", "l", "l", "o">>), NullV >>
        /\ t_input.text = Example2
               => t_result.values = << NullV, StrV(<< >>), IntV(1) >>

\* a parsed tuple that holds a NULL keyword, an unquoted empty field and a
\* quoted empty string side by side
C5_Witness ==
    /\ t_pc = "parsed"
    /\ t_input.kind = "tuple"
    /\ t_input.fields = <<"nullkw", "qempty", "empty">>
    /\ t_result.values = << NullV, StrV(<< >>), NullV >>

\* C6: the quoted, escaped form of a string parses back to that string
C6_RoundTrip ==
    (t_pc = "parsed" /\ t_input.kind = "quoted") =>
        t_result.values = << StrV(t_input.orig) >>

(***************************************************************************)
(* Properties of stream_rows                                               *)
(***************************************************************************)
KnownTable == s_table \in DOMAIN COLUMN_MAPS

FieldCountOK(fs) == Len(fs) = Len(Columns)

Malformed(fs) == Len(fs) # Len(Columns)

\* the row of one tuple: its values, parsed on their own, under the
\* schema's column names
ParsedRow(fs) == RowDict(Columns, ParseValuesTuple(TupleText(fs), 0).values)

RowsOf(ts) == [ i \in 1..Len(ts) |-> ParsedRow(ts[i]) ]

IsPrefix(a, b) == Len(a) <= Len(b) /\ SubSeq(b, 1, Len(a)) = a

Streaming == KnownTable /\ s_readable /\ s_pc \in {"lines", "tuples", "done"}

\* C7: when every tuple of the file has the schema's column count and no
\* allow-list is given, the rows yielded so far are the rows of the first
\* tuples in source order, and at the end there is exactly one row per
\* tuple, the i-th row holding the i-th tuple's values by column name.
C7_RowsInSourceOrder ==
    (/\ Streaming
     /\ s_filter = << >>
     /\ \A i \in 1..Len(s_tuples) : FieldCountOK(s_tuples[i])) =>
        /\ IsPrefix(rows, RowsOf(s_tuples))
        /\ row_count = Len(rows)
        /\ error_count = 0
        /\ s_pc = "done" => rows = RowsOf(s_tuples)

\* one statement of MaxTuples well-formed tuples has been read to the end
C7_Witness ==
    /\ Streaming
    /\ s_pc = "done"
    /\ s_filter = << >>
    /\ Len(s_file) = 1
    /\ Len(s_tuples) = MaxTuples
    /\ \A i \in 1..Len(s_tuples) : FieldCountOK(s_tuples[i])
    /\ Len(rows) = MaxTuples
    /\ rows = RowsOf(s_tuples)

\* C8: without an allow-list, a tuple with a wrong field count is never
\* yielded and adds exactly one to the error count, and every well-formed
\* tuple of the file, before or after it, is yielded: at the end the rows
\* are those of the well-formed tuples in order and the error count is
\* the number of malformed tuples.
C8_MalformedCountedAndSkipped ==
    (Streaming /\ s_filter = << >>) =>
        /\ IsPrefix(rows, RowsOf(SelectSeq(s_tuples, FieldCountOK)))
        /\ error_count <= Len(SelectSeq(s_tuples, Malformed))
        /\ s_exc = "none"
        /\ s_pc = "done" =>
             /\ rows = RowsOf(SelectSeq(s_tuples, FieldCountOK))
             /\ error_count = Len(SelectSeq(s_tuples, Malformed))

\* the scenario of the spec: one statement of two tuples, the first with a
\* wrong field count, gives one row and an error count of one
C8_Witness ==
    /\ Streaming
    /\ s_pc = "done"
    /\ s_filter = << >>
    /\ Len(s_file) = 1
    /\ Len(s_tuples) = 2
    /\ Malformed(s_tuples[1])
    /\ FieldCountOK(s_tuples[2])
    /\ Len(rows) = 1
    /\ error_count = 1

\* the community value of a tuple, fully parsed
CommunityOf(fs) == ParseValuesTuple(TupleText(fs), 0).values[subverse_idx + 1]

InAllowList(fs) ==
    /\ CommunityOf(fs) # NullV
    /\ StrLower(CommunityOf(fs)) \in filter_lower

Kept(fs) == FieldCountOK(fs) /\ InAllowList(fs)

\* C9: with a non-empty allow-list, the rows yielded are exactly those of
\* the tuples that have the schema's column count and whose fully parsed
\* community value is, without regard to case, in the allow-list.
C9_AllowListDecides ==
    (Streaming /\ s_filter # << >>) =>
        /\ IsPrefix(rows, RowsOf(SelectSeq(s_tuples, Kept)))
        /\ s_pc = "done" => rows = RowsOf(SelectSeq(s_tuples, Kept))

\* C10: for a table name that is neither submission nor comment the call
\* ends in ValueError, and the file is never opened and no row is yielded.
C10_UnknownTableRaisesFirst ==
    (s_pc # "idle" /\ ~KnownTable) =>
        /\ ~s_opened
        /\ rows = << >>
        /\ s_pc \in {"start", "raised"}
        /\ s_pc = "raised" <=> s_exc = "ValueError"

\* the call for table "post" has raised
C10_Witness ==
    /\ s_table = "post"
    /\ s_file # << >>
    /\ s_pc = "raised"
    /\ s_exc = "ValueError"
    /\ ~s_opened
    /\ rows = << >>

\* C11: a call on a corrupt archive (the probe of lines 133-137 fails) or on
\* an empty archive ends as a failure raised to the caller, unlike a call
\* on a valid archive without a matching row, which ends normally.
C11_FailuresDistinct ==
    (KnownTable /\ s_pc \in {"done", "raised"}) =>
        IF ~s_readable \/ s_file = << >>
        THEN s_pc = "raised" /\ s_exc # "none"
        ELSE s_pc = "done" /\ s_exc = "none"

(***************************************************************************)
(* Properties of read_lines_zst                                            *)
(***************************************************************************)
\* the lines of a text: the pieces between newlines, without the empty
\* piece that follows a final newline
LinesOf(text) ==
    LET pieces == SplitLF(text)
    IN  IF pieces[Len(pieces)] = << >> THEN SubSeq(pieces, 1, Len(pieces) - 1)
        ELSE pieces

\* the lines that end in a newline
TerminatedLines(text) ==
    LET pieces == SplitLF(text) IN SubSeq(pieces, 1, Len(pieces) - 1)

\* C12: when the archive decodes without reaching the ceiling, the lines
\* yielded are, in order, exactly the lines of the whole decoded text,
\* whatever the chunk size.
C12_ChunkedEqualsWhole ==
    (z_pc = "done" /\ z_bytes = Encode(z_text)) => z_lines = LinesOf(z_text)

(***************************************************************************)
(* Further properties of the batch loader                                  *)
(***************************************************************************)
BetweenBatches == pc \in {"loop", "final", "done"}

\* C13: with monitoring enabled, whenever the loader stands between two
\* batches or has finished, successful_batches + failed_batches is at least
\* the number of batches attempted so far.
C13_NoBatchUncounted ==
    (enable_monitoring /\ BetweenBatches) =>
        metrics.successful_batches + metrics.failed_batches >= attempted

\* a run in which one batch committed cleanly, one failed, and one was
\* counted both as successful and as failed
C13_Witness ==
    /\ enable_monitoring
    /\ pc = "done"
    /\ attempted >= 2
    /\ metrics.successful_batches >= 1
    /\ metrics.failed_batches >= 1
    /\ metrics.successful_batches + metrics.failed_batches > attempted

\* the interval invocations: the i-th carries the batch count i * interval
IntervalCalls(cs) ==
    \A i \in 1..Len(cs) :
        /\ ~cs[i].completed
        /\ cs[i].batches = i * config.progress_callback_interval

\* C14: in every call, the callback is invoked once after each batch that
\* brings the count of executed batches to a multiple of the interval, and
\* when the call has ended it has been invoked exactly once more, last,
\* with completed = True.
C14_CallbackSchedule ==
    /\ BetweenBatches /\ pc # "done" =>
         /\ IntervalCalls(callbacks)
         /\ Len(callbacks) = batches_processed \div config.progress_callback_interval
    /\ pc = "done" =>
         /\ callbacks # << >>
         /\ callbacks[Len(callbacks)].completed
         /\ IntervalCalls(SubSeq(callbacks, 1, Len(callbacks) - 1))
         /\ Len(callbacks) - 1 = batches_processed \div config.progress_callback_interval

(***************************************************************************)
(* Properties of the Progress Tracker                                      *)
(***************************************************************************)
\* C15: a call of update_progress_status with the community, status and
\* counters of the call before it changes no stored row, and a counter
\* passed is stored as the value given.
C15_IdempotentUpdate ==
    /\ [][(k_last # NoCall /\ k_last' = k_last) => k_rows' = k_rows]_vars
    /\ [](k_last # NoCall /\ k_last.posts_imported # -1
             => k_rows[k_last.community].posts_imported = k_last.posts_imported)

\* the same call with a non-zero counter has been made twice in a row
C15_Witness ==
    /\ k_repeat
    /\ k_last.posts_imported = MaxCount
    /\ k_rows[k_last.community].posts_imported = MaxCount

\* C16: after failed with an error message, then importing with counters 0
\* and the error message cleared, then imported with final counters, the
\* community reads back as imported, with those counters and no error
\* message.
C16_RecoveryFromFailed ==
    k_stage = 3 =>
        /\ get_progress_status(k_last.community).status = "imported"
        /\ get_progress_status(k_last.community).posts_imported = k_last.posts_imported
        /\ get_progress_status(k_last.community).error_message = "None"

\* the three calls of the scenario have been made, the last with a non-zero
\* counter
C16_Witness ==
    /\ k_stage = 3
    /\ k_last.posts_imported = MaxCount
    /\ get_progress_status(k_last.community).status = "imported"

StatusOf(c) == k_rows[c].status

\* C17: the import-phase query returns every pending or importing community
\* and no imported or completed one; the export-phase queries return every
\* imported, exporting or completed community and no pending one.
C17_PhaseQueries ==
    \A c \in Communities :
        /\ k_answer.query = "import" =>
             /\ StatusOf(c) \in {"pending", "importing"} => c \in k_answer.result
             /\ StatusOf(c) \in {"imported", "completed"} => c \notin k_answer.result
        /\ k_answer.query \in {"export", "all_imported"} =>
             /\ StatusOf(c) \in {"imported", "exporting", "completed"}
                    => c \in k_answer.result
             /\ StatusOf(c) = "pending" => c \notin k_answer.result

\* the import-phase query has been asked with one community importing and
\* the other imported
C17_Witness ==
    /\ k_answer.query = "import"
    /\ \E c, d \in Communities :
         /\ StatusOf(c) = "importing"
         /\ StatusOf(d) = "imported"
         /\ k_answer.result = {c}

(***************************************************************************)
(* Properties of prefix_id                                                 *)
(***************************************************************************)
\* C18: two records get the same prefixed id only if they are of the same
\* platform and have the same raw id (a raw id being the text the source
\* gives: the number 11 and the string 11 are one id).
C18_PrefixedIdsUnique ==
    (i_pc = "prefixed" /\ i_id_a = i_id_b) =>
        /\ i_a.platform = i_b.platform
        /\ StrOf(i_a.raw_id) = StrOf(i_b.raw_id)

\* the same raw id on two platforms has received two different ids
C18_Witness ==
    /\ i_pc = "prefixed"
    /\ i_a.platform # i_b.platform
    /\ i_a.raw_id = i_b.raw_id
    /\ i_id_a # i_id_b
    /\ i_id_a = PLATFORM_ID[i_a.platform] \o <<"_">> \o StrOf(i_a.raw_id)

(***************************************************************************)
(* Properties of the auto-tuner                                            *)
(***************************************************************************)
\* the factors as the spec writes them; a sample of 0 makes the quotient
\* unbounded, so the other argument of min is taken
SpecMemoryFactor(used) ==
    IF used = 0 THEN <<1, 1>> ELSE FracMin(<<1, 1>>, <<memory_threshold_mb, used>>)

SpecPerformanceFactor(observed) ==
    IF observed = 0 THEN <<3, 2>>
    ELSE FracMin(<<3, 2>>, <<performance_threshold_records_per_sec, observed>>)

\* clamp to [min, max], adopt only beyond 10% of the current size
ClampAndAdopt(cfg, cur, candidate) ==
    LET clamped == IF candidate < cfg.min_batch_size THEN cfg.min_batch_size
                   ELSE IF candidate > cfg.max_batch_size THEN cfg.max_batch_size
                   ELSE candidate
        diff == IF clamped >= cur THEN clamped - cur ELSE cur - clamped
    IN  IF 10 * diff > cur THEN clamped ELSE cur

SpecResize(cfg, cur, observed, used) ==
    LET f == FracMin(SpecMemoryFactor(used), SpecPerformanceFactor(observed))
    IN  ClampAndAdopt(cfg, cur, (cur * f[1]) \div f[2])

\* C19 as the spec states it: the size the tuner returns is that of the
\* rule with memory_factor = min(1, threshold/used) and performance_factor
\* = min(1.5, target/observed).
C19_SpecResizeRule ==
    u_pc = "tuned" => u_new = SpecResize(u_config, u_current, u_speed, u_memory)

\* the candidate of the tuner, written without fractions: the smaller of
\* the size the memory factor gives (halved at most, unchanged up to the
\* threshold) and the size the performance factor gives (half as much
\* again at most, unchanged unless 0 < observed < target)
CodeCandidate(cur, observed, used) ==
    LET thr == memory_threshold_mb
        tgt == performance_threshold_records_per_sec
        by_memory == IF used <= thr THEN cur
                     ELSE IF used >= 2 * thr THEN cur \div 2
                     ELSE (cur * thr) \div used
        by_speed == IF ~(observed > 0 /\ observed < tgt) THEN cur
                    ELSE IF 3 * observed <= 2 * tgt THEN (3 * cur) \div 2
                    ELSE (cur * tgt) \div observed
    IN  IF by_memory <= by_speed THEN by_memory ELSE by_speed

\* C19, amended: the size the tuner returns is current x min(memory_factor,
\* performance_factor) rounded down, with memory_factor = max(0.5,
\* threshold/used) above the threshold and 1 otherwise, performance_factor
\* = min(1.5, target/observed) for 0 < observed < target and 1 otherwise,
\* clamped to [min, max] and adopted only beyond 10% of the current size.
C19_CodeResizeRule ==
    u_pc = "tuned" =>
        u_new = ClampAndAdopt(u_config, u_current,
                              CodeCandidate(u_current, u_speed, u_memory))

\* memory use of four times the threshold has halved the size, where the
\* rule of the spec would have quartered it
C19_Witness ==
    /\ u_pc = "tuned"
    /\ u_memory >= 4 * memory_threshold_mb
    /\ u_current = MaxTuneSize
    /\ u_config.min_batch_size = 1
    /\ u_new = u_current \div 2
    /\ u_new # SpecResize(u_config, u_current, u_speed, u_memory)

(***************************************************************************)
(* Transactions of the batch loader                                        *)
(***************************************************************************)
\* C20: under transaction_scope batch, when a batch is over and neither
\* BEGIN nor COMMIT itself failed, the statements issued for it are BEGIN
\* followed by exactly one of COMMIT and ROLLBACK, also when the progress
\* callback raised after the batch operation had returned.
C20_OneEndPerTransaction ==
    (/\ config.transaction_scope = "batch"
     /\ pc = "loop"
     /\ attempted > 0
     /\ exc_from \notin {"begin", "commit"}) =>
        sql_log \in { <<"BEGIN", "COMMIT">>, <<"BEGIN", "ROLLBACK">> }

(***************************************************************************)
(* Termination and the split layout of stream_rows                         *)
(***************************************************************************)
\* C21: every pass of the inner tuple loop of stream_rows either removes at
\* least one character from the buffer or leaves the loop, so the generator
\* ends on every finite dump file.
C21_EveryPassProgresses ==
    s_pc = "tuples" =>
        \/ TupleOutcome.brk
        \/ Len(TupleOutcome.buffer) < Len(buffer)

\* the run reads a complete dump in the split layout, without allow-list
WholeSplitFile ==
    /\ s_file = PhysicalLines(SplitText(s_tuples))
    /\ s_filter = << >>
    /\ s_pc \in {"lines", "tuples", "done"}

\* the number of physical lines taken by the first i tuples
LinesThrough(i) == Len(PhysicalLines(SplitText(SubSeq(s_tuples, 1, i)))) 

\* the tuples whose last line is among the first n lines
CompletedBy(n) == Cardinality({ i \in 1..Len(s_tuples) : LinesThrough(i) <= n })

KeyColumn == Columns[1]

\* C22: in the split layout every tuple, also one that spans several lines,
\* is yielded exactly once and only after its last line was read; no row
\* comes from a part of a tuple, and no tuple is counted as an error or lost.
C22_SplitTupleYieldedOnce ==
    WholeSplitFile =>
        /\ Len(rows) <= CompletedBy(s_next)
        /\ \A i \in 1..Len(rows) :
             i <= Len(s_tuples) /\ rows[i][KeyColumn] = ParsedRow(s_tuples[i])[KeyColumn]
        /\ error_count = 0
        /\ s_pc = "done" => Len(rows) = Len(s_tuples)

\* C23: while a multi-line tuple is accumulated in the split layout, the
\* next physical line is appended unchanged to the buffer whatever it
\* holds, and every row yielded holds the full text of its source tuple.
C23_ContinuationAppended ==
    /\ [][(/\ WholeSplitFile
           /\ s_pc = "lines"
           /\ accumulating_tuple
           /\ s_next < Len(s_file)) => buffer' = buffer \o s_file[s_next + 1]]_vars
    /\ [](WholeSplitFile =>
            \A i \in 1..Len(rows) :
                \E j \in 1..Len(s_tuples) : rows[i] = ParsedRow(s_tuples[j]))

(***************************************************************************)
(* The tuple state machine                                                 *)
(***************************************************************************)
\* the state in which the character at 1-based position k of a tuple text
\* is read; DOUBLED is the second quote of a doubled quote, which the loop
\* takes together with the first
RECURSIVE StateAt(_, _)
StateAt(text, k) ==
    IF k <= 2 THEN "OUTSIDE"
    ELSE LET before == StateAt(text, k - 1)
             char == text[k - 1]
         IN  CASE before = "ESCAPE" -> "IN_STRING"
               [] before = "DOUBLED" -> "IN_STRING"
               [] before = "IN_STRING" ->
                    IF char = "\\" THEN "ESCAPE"
                    ELSE IF char = "'"
                    THEN IF text[k] = "'" THEN "DOUBLED" ELSE "OUTSIDE"
                    ELSE "IN_STRING"
               [] OTHER -> IF char = "'" THEN "IN_STRING" ELSE "OUTSIDE"

\* positions of closing parentheses read in OUTSIDE state
OutsideParens(text) ==
    { k \in 2..Len(text) : text[k] = ")" /\ StateAt(text, k) = "OUTSIDE" }

FirstOutsideParen(text) ==
    CHOOSE k \in OutsideParens(text) : \A j \in OutsideParens(text) : k <= j

\* how often character c is read before position last in one of the states
ReadIn(text, c, states, last) ==
    Cardinality({ k \in 2..(last - 1) : text[k] = c /\ StateAt(text, k) \in states })

RECURSIVE CountIn(_, _)
CountIn(str, c) ==
    IF str = << >> THEN 0
    ELSE (IF Head(str) = c THEN 1 ELSE 0) + CountIn(Tail(str), c)

RECURSIVE CountInValues(_, _)
CountInValues(values, c) ==
    IF values = << >> THEN 0
    ELSE CountIn(Head(values).s, c) + CountInValues(Tail(values), c)

InsideStates == {"IN_STRING", "ESCAPE", "DOUBLED"}

\* C24: when the text holds a closing parenthesis read in OUTSIDE state, the
\* tuple ends at the first such parenthesis and the resume offset is the
\* index just past it; the number of fields is one more than the number of
\* commas read in OUTSIDE state before it; commas and parentheses read
\* inside a string or after a backslash are content of the fields.  Without
\* such a parenthesis the whole text is consumed.
C24_TupleEndsOutsideString ==
    (t_pc = "parsed" /\ t_input.kind = "scan") =>
        LET text == t_input.text IN
        IF OutsideParens(text) = { }
        THEN t_result.end = Len(text)
        ELSE LET last == FirstOutsideParen(text) IN
             /\ t_result.end = last
             /\ Len(t_result.values) = 1 + ReadIn(text, ",", {"OUTSIDE"}, last)
             /\ CountInValues(t_result.values, ",") = ReadIn(text, ",", InsideStates, last)
             /\ CountInValues(t_result.values, ")") = ReadIn(text, ")", InsideStates, last)

\* a parenthesis after a backslash inside a string, then the parenthesis
\* that ends the tuple
C24_Witness ==
    /\ t_pc = "parsed"
    /\ t_input.text = <<"(", "'", "\\", ")", "'", ")">>
    /\ t_result = [ values |-> << StrV(<<")">>) >>, end |-> 6 ]

\* C25: a field written in single quotes is never parsed as null, whatever
\* its content, the text NULL included.
C25_QuotedNeverNull ==
    (/\ t_pc = "parsed"
     /\ t_input.kind \in {"tuple", "quoted"}
     /\ Len(t_input.fields) = 1
     /\ t_input.text[2] = "'") =>
        \A i \in 1..Len(t_result.values) : t_result.values[i] # NullV

(***************************************************************************)
(* Termination of read_and_decode                                          *)
(***************************************************************************)
\* reader.read calls of the latest read_and_decode call: bytes_read grows
\* by chunk_size with each
Reads == z_last.bytes_read \div z_chunk_size

\* C26: read_and_decode reads again after a failed decode only while the
\* bytes read so far do not exceed the ceiling and fails with UnicodeError
\* once they do, so it makes at most ceiling / chunk size + 1 reads, also
\* when the undecodable bytes are the last of the input.
C26_DecodeRetriesBounded ==
    z_pc \in {"loop", "done", "raised"} =>
        /\ Reads <= (max_window_size \div z_chunk_size) + 1
        /\ Reads > 1 => (Reads - 1) * z_chunk_size <= max_window_size
        /\ z_last.exc = "UnicodeError" <=> z_pc = "raised"
        /\ z_pc = "raised" =>
             /\ z_last.bytes_read > max_window_size
             /\ ~Decode(z_bytes).ok

\* a call that failed after reading to the ceiling, the reader at the end
\* of the input
C26_Witness ==
    /\ z_pc = "raised"
    /\ z_pos = Len(z_bytes)
    /\ Reads = (max_window_size \div z_chunk_size) + 1

(***************************************************************************)
(* Order of the stored statuses                                            *)
(***************************************************************************)
Rank(status) ==
    CASE status = "pending" -> 1
      [] status = "importing" -> 2
      [] status = "imported" -> 3
      [] status = "exporting" -> 4
      [] status = "completed" -> 5
      [] OTHER -> 0

\* the moves the status of one community may make: creation, forward,
\* into failed, out of failed (the retry), back to pending (the reset)
AllowedMove(old, new) ==
    \/ old = "absent"
    \/ new = "failed"
    \/ old = "failed"
    \/ new = "pending"
    \/ Rank(old) <= Rank(new)

\* C27: whatever updates are sent, the stored status of a community only
\* moves forward along pending, importing, imported, exporting, completed,
\* or into failed; the only moves back are the retry out of failed and a
\* reset to pending.
C27_StatusMovesForward ==
    [][\A c \in Communities : AllowedMove(k_rows[c].status, k_rows'[c].status)]_vars

(***************************************************************************)
(* Failures and the database handle in stream_to_database                  *)
(***************************************************************************)
RECURSIVE Flatten(_)
Flatten(batches) ==
    IF batches = << >> THEN << >> ELSE Head(batches) \o Flatten(Tail(batches))

GoodLines == { i \in 1..Len(d_lines) : d_lines[i] = "good" }

\* C28: a batch whose flush raises does not end stream_to_database: the
\* call fails only when the source is missing or cannot be decoded (or the
\* record type is unknown), and when it returns every line has been read.
C28_FlushFailureContained ==
    /\ d_pc = "raised" => d_cause \in {"FileNotFoundError", "ValueError", "UnicodeError"}
    /\ d_pc = "returned" => d_next = Len(d_lines)

\* C29: when stream_to_database is over, the handle it created was released
\* exactly once, whether it returned, a flush failed or the reader could not
\* decode, and a handle passed by the caller was never closed.
C29_HandleReleasedOnce ==
    /\ d_cleanups <= 1
    /\ d_supplied => d_cleanups = 0
    /\ (d_pc \in {"returned", "raised"} /\ should_close_db) => d_cleanups = 1
    /\ (d_pc \notin {"returned", "raised", "idle"}) => d_cleanups = 0

\* a flush failed after an earlier batch was stored, and the handle the
\* call had created was released
C29_Witness ==
    /\ d_pc = "raised"
    /\ d_cause = "flush"
    /\ d_flushed # << >>
    /\ ~d_supplied
    /\ d_cleanups = 1

(***************************************************************************)
(* The effectiveness prediction and the adopted size                       *)
(***************************************************************************)
\* C30: two loaders with the same configuration that are given the same
\* samples hold the same batch size after every batch, whatever their
\* performance histories and effectiveness counters are.
C30_SizeIgnoresPrediction ==
    p_pc = "run" => p_size["a"] = p_size["b"]

\* after one batch both loaders halved their size; the prediction was
\* "effective" for a and, because of its history, "ineffective" for b
C30_Witness ==
    /\ p_pc = "run"
    /\ p_batches = 1
    /\ p_size["a"] = MaxTuneSize \div 2
    /\ p_size["b"] = MaxTuneSize \div 2
    /\ p_history["a"] = << MaxTuneSize >>
    /\ p_counters["a"] = [ adjustments_successful |-> 1, adjustments_failed |-> 0 ]
    /\ p_counters["b"] = [ adjustments_successful |-> 0, adjustments_failed |-> 1 ]

====
